---- MODULE Spec2Model ----
(***************************************************************************)
(* LazyConnector of router/src/routing/src/classic_lazy_connect.cc: the    *)
(* re-entrant stage machine that prepares a server connection for a client *)
(* session.  One action per stage function of LazyConnector::process(),    *)
(* one action per sub-processor the machine pushes on the processor stack, *)
(* and one for the connect-retry timer.                                    *)
(***************************************************************************)
EXTENDS Integers, Sequences, FiniteSets, TLC

(***************************************************************************)
(* Bounds of the model.                                                    *)
(***************************************************************************)
\* connect_retry_timeout, counted in retry intervals (kConnectRetryInterval)
RetryWindow == 2
\* most rows a resultset delivered to a query handler carries
MaxRows == 2
\* longest transaction-characteristics statement split
MaxStmtLen == 5

(***************************************************************************)
(* Values.                                                                 *)
(***************************************************************************)
Stages ==
  {"Connect", "Connected", "Authenticated", "SetVars", "SetVarsDone",
   "SetServerOption", "SetServerOptionDone", "FetchSysVars",
   "FetchSysVarsDone", "SetSchema", "SetSchemaDone", "WaitGtidExecuted",
   "WaitGtidExecutedDone", "SetTrxCharacteristics",
   "SetTrxCharacteristicsDone", "FetchUserAttrs", "FetchUserAttrsDone",
   "SendAuthOk", "PoolOrClose", "FallbackToWrite", "Done"}

\* the trace-span handles of the machine, one per phase
Phases ==
  {"connect", "authenticate", "set_vars", "fetch_sys_vars", "set_schema",
   "wait_gtid_executed", "set_trx_characteristics"}

\* classic_protocol::message::server::Error{code, message, sql_state}
Error(c, m, s) == [code |-> c, message |-> m, sql_state |-> s]

ErrTooManyColumns == Error(0, "Too many columns", "HY000")
ErrNoFields == Error(0, "No fields", "HY000")
ErrGotNull == Error(0, "Expected integer, got NULL", "HY000")
ErrTooManyRows == Error(0, "Too many rows", "HY000")
ErrWaitTimedOut == Error(0, "wait_for_my_writes timed out", "HY000")
ErrAccessDenied == Error(1045, "Access denied", "28000")

\* errors a server sends: a transient one (max connections reached) and
\* two that are not
ErrConCount == Error(1040, "Too many connections", "08004")
ErrServerDenied == Error(1045, "Access denied for user", "28000")
ErrQueryFailed == Error(1064, "You have an error in your SQL syntax", "42000")

GreetingErrors == {ErrConCount, ErrServerDenied}
QueryErrors == {ErrQueryFailed}

\* std::optional<T>: <<>> is std::nullopt, <<v>> holds v
NullOpt == <<>>
Some(v) == <<v>>

(***************************************************************************)
(* The inputs of a run: what the session and the configuration hold when   *)
(* the LazyConnector is constructed.                                       *)
(***************************************************************************)
ServerModes == {"ReadOnly", "ReadWrite"}

ClientUsername == "app"
ClientAttributes == "attrs_app"
ServerUsernames == {"app", "other"}
ServerAttributes == {"attrs_app", "attrs_other"}
ClientSchemas == {"", "shop"}
ServerSchemas == {"", "shop"}
GtidSets == {"", "uuid:1-5"}

\* the names a SystemVariables store of the model may hold, in the order
\* the store iterates them (a std::map: sorted by name)
SysVarNames ==
  <<"character_set_client", "collation_connection", "session_track_gtids",
    "session_track_state_change", "session_track_system_variables",
    "session_track_transaction_info", "sql_mode", "statement_id">>

\* a SystemVariables store is a set of <<name, Value>> with one entry per
\* name, a Value an optional string; the stores a run starts with:
InitStores ==
  { {<<"statement_id", Some("7")>>},
    {<<"session_track_gtids", NullOpt>>,
     <<"character_set_client", Some("utf8mb4")>>,
     <<"collation_connection", Some("utf8mb4_bin")>>} }

\* the statements TrxCharacteristics::characteristics() may hold, as
\* sequences of characters
TrxStatements == { <<"a">>, <<"a", ";", " ", "b">> }

\* every non-empty statement of up to MaxStmtLen characters
TrxInputs ==
  UNION {[1..k -> {"a", ";", " "}] : k \in 1..MaxStmtLen}

VARIABLES
  \* ---- LazyConnector
  stage,              \* stage()
  failed,             \* failed(): std::optional<Error>
  retry_connect,      \* retry_connect_
  already_fallback,   \* already_fallback_
  in_handshake,       \* in_handshake_
  trx_stmt,           \* trx_stmt_
  fetcher_result,     \* required_connection_attributes_fetcher_result_
  handle,             \* trace_event_<phase>_: the event it points to
  parent_event,       \* parent_event_
  on_error_,          \* on_error_ holds a callable: if (on_error_)
  \* ---- the connection the machine works on
  server_open,        \* socket_splicer()->server_conn().is_open()
  is_authenticated,   \* connection()->authenticated()
  server_greeting,    \* server_protocol()->server_greeting().has_value()
  client_greeting_sent,
  client_username, client_attributes, client_schema, client_multi,
  server_username, server_attributes, server_schema, server_multi,
  expected_server_mode,
  sysvars,            \* execution_context().system_variables()
  some_state_changed, \* set by connection()->some_state_changed(true)
  trx_characteristics,\* connection()->trx_characteristics(): optional
  server_seq_id,      \* server_protocol()->seq_id()
  server_protocol,    \* connection()->server_protocol(): nullptr or set
  \* ---- connection()->context()
  connection_sharing, greeting_from_router,
  \* ---- scheduling
  pending,            \* the sub-processor pushed on top of the machine
  pending_arg,        \* the statement, schema or option it was given
  result,             \* what the last process() call returned
  timer_armed,        \* authenticated() started a wait of connect_timer()
                      \* and resume() was not called since
  timer_canceled,     \* the handler of that wait was called with an error
                      \* code: it returned without resume()
  clock,              \* steady_clock::now() - started_ in retry intervals,
                      \* as far as the run has taken notice of it: the
                      \* value last read (line 396), one more after a wait
  thrown,             \* std::bad_function_call left a callback of the machine
  \* ---- the tracing collaborator and what the client saw
  abandoned,          \* phases with an event left open without a handle
  ended_twice,        \* phases with an event ended more than once
  on_error_log,       \* the stages in which on_error_ was invoked
  client_replies,     \* messages the machine handed to the client
  suspends,           \* how often process() returned Suspend
  restarts,           \* how often fallback_to_write() went back to Connect
  failed_phase,       \* the stage whose handler recorded failed()
  greet_log,          \* outcome of each ServerGreetor run
  other_failure,      \* a collaborator other than ServerGreetor failed
  \* ---- the record of a run: what the sub-processors did
  observe,            \* the sub-processors whose runs are recorded
  sent                \* the recorded runs, in order

lcVars ==
  <<stage, failed, retry_connect, already_fallback, in_handshake, trx_stmt,
    fetcher_result, handle, parent_event, on_error_>>
clientVars ==
  <<client_username, client_attributes, client_schema, client_multi,
    connection_sharing, greeting_from_router>>
serverVars ==
  <<server_open, server_greeting, server_username, server_attributes,
    server_schema, server_multi, server_seq_id, server_protocol>>
connVars ==
  <<is_authenticated, client_greeting_sent, expected_server_mode, sysvars,
    some_state_changed, trx_characteristics>>
schedVars ==
  <<pending, pending_arg, result, timer_armed, timer_canceled, clock, thrown>>
obsVars ==
  <<abandoned, ended_twice, on_error_log, client_replies, suspends, restarts, failed_phase,
    greet_log, other_failure>>
logVars == <<observe, sent>>
vars ==
  <<lcVars, clientVars, serverVars, connVars, schedVars, obsVars, logVars>>

\* server_protocol()->seq_id(0xff)
SeqIdReset == 255

\* the machine and its session when the LazyConnector is constructed
Constructed ==
  /\ stage = "Connect"
  /\ failed = NullOpt
  /\ retry_connect = FALSE
  /\ already_fallback = FALSE
  /\ in_handshake \in BOOLEAN
  /\ trx_stmt = <<>>
  /\ fetcher_result = "unset"
  /\ handle = [p \in Phases |-> "nullptr"]
  /\ parent_event \in {"nullptr", "open"}
  \* the callback the constructor was given may be an empty std::function
  /\ on_error_ \in BOOLEAN
  /\ abandoned = {}
  /\ ended_twice = {}
  \* a session still in its handshake has no server connection and is not
  \* authenticated; a session past it is authenticated
  /\ server_open \in (IF in_handshake THEN {FALSE} ELSE BOOLEAN)
  /\ is_authenticated = ~in_handshake
  /\ server_greeting = server_open
  /\ client_greeting_sent = server_open
  /\ client_username = ClientUsername
  /\ client_attributes = ClientAttributes
  /\ client_schema \in ClientSchemas
  /\ client_multi \in BOOLEAN
  /\ server_username = IF server_open THEN ClientUsername ELSE ""
  /\ server_attributes = IF server_open THEN ClientAttributes ELSE ""
  /\ server_schema = IF server_open THEN client_schema ELSE ""
  /\ server_multi = IF server_open THEN client_multi ELSE FALSE
  /\ expected_server_mode \in ServerModes
  /\ sysvars \in InitStores
  /\ some_state_changed = FALSE
  /\ trx_characteristics \in {NullOpt} \cup {Some(s) : s \in TrxStatements}
  /\ server_seq_id = 0
  \* an open server connection has its protocol state
  /\ server_protocol \in (IF server_open THEN {"set"} ELSE {"nullptr", "set"})
  /\ connection_sharing \in BOOLEAN
  /\ greeting_from_router \in BOOLEAN
  /\ pending = "none"
  /\ pending_arg = <<>>
  /\ result = "none"
  /\ timer_armed = FALSE
  /\ timer_canceled = FALSE
  /\ clock = 0
  /\ thrown = FALSE
  /\ on_error_log = <<>>
  /\ client_replies = 0
  /\ suspends = 0
  /\ restarts = 0
  /\ failed_phase = "none"
  /\ greet_log = <<>>
  /\ other_failure = FALSE
  /\ sent = <<>>

Init == Constructed /\ observe = {}

(***************************************************************************)
(* ExecutionContext::SystemVariables and Value.                            *)
(***************************************************************************)
Has(sv, key) == \E e \in sv : e[1] = key

\* find(): the entry's Value, or std::nullopt when there is no entry
Find(sv, key) ==
  IF Has(sv, key) THEN Some((CHOOSE e \in sv : e[1] = key)[2]) ELSE NullOpt

\* get(): the entry's Value, or the NULL Value when there is no entry
Get(sv, key) ==
  IF Has(sv, key) THEN (CHOOSE e \in sv : e[1] = key)[2] ELSE NullOpt

\* set(): insert or overwrite
Set(sv, key, val) == {e \in sv : e[1] # key} \cup {<<key, val>>}

\* the entries in iteration order
Entries(sv) ==
  LET names == SelectSeq(SysVarNames, LAMBDA n : Has(sv, n))
  IN  [i \in 1..Len(names) |-> <<names[i], Get(sv, names[i])>>]

\* Value::to_string(): NULL, or the quoted string
to_string(val) == IF val = NullOpt THEN <<"NULL">> ELSE <<"'", val[1], "'">>

(***************************************************************************)
(* The SET statement of set_vars(), as the sequence of its assignments.    *)
(***************************************************************************)
set_session_var(q, key, val) ==
  Append(q, [key |-> key, val |-> to_string(val)])

set_session_var_if_not_set(q, sv, key, value) ==
  IF Get(sv, key) = NullOpt THEN set_session_var(q, key, value) ELSE q

set_session_var_or_value(q, sv, key, default_value) ==
  LET value == Get(sv, key)
  IN  IF value = NullOpt
      THEN set_session_var(q, key, default_value)
      ELSE set_session_var(q, key, value)

RECURSIVE SetVarsLoop(_, _, _)
SetVarsLoop(q, entries, i) ==
  IF i > Len(entries) THEN q
  ELSE IF entries[i][1] \in {"session_track_system_variables", "statement_id"}
       THEN SetVarsLoop(q, entries, i + 1)
       ELSE SetVarsLoop(set_session_var(q, entries[i][1], entries[i][2]),
                        entries, i + 1)

SetVarsStmt(sv, need_session_trackers) ==
  LET first ==
        IF need_session_trackers
        THEN set_session_var_or_value(<<>>, sv,
               "session_track_system_variables", Some("*"))
        ELSE LET var == Get(sv, "session_track_system_variables")
             IN  IF var # NullOpt
                 THEN set_session_var(<<>>, "session_track_system_variables",
                                      var)
                 ELSE <<>>
      looped == SetVarsLoop(first, Entries(sv), 1)
  IN  IF need_session_trackers
      THEN set_session_var_if_not_set(
             set_session_var_if_not_set(
               set_session_var_if_not_set(looped, sv, "session_track_gtids",
                                          Some("OWN_GTID")),
               sv, "session_track_transaction_info", Some("CHARACTERISTICS")),
             sv, "session_track_state_change", Some("ON"))
      ELSE looped

(***************************************************************************)
(* Result streams a QuerySender delivers to its handler.                   *)
(***************************************************************************)
SeqsUpTo(S, n) == UNION {[1..k -> S] : k \in 0..n}

ResultSet(c, rows) == [kind |-> "resultset", columns |-> c, rows |-> rows]
ErrorResult(e) == [kind |-> "error", columns |-> 0, rows |-> <<>>, err |-> e]
OkResult == [kind |-> "ok", columns |-> 0, rows |-> <<>>]

\* rows of c fields whose first field is f
RowOf(c, f) == IF c = 0 THEN <<>> ELSE IF c = 1 THEN <<f>> ELSE <<f, Some("x")>>

IsTrueStreams ==
  {ErrorResult(e) : e \in QueryErrors} \cup
  UNION { {ResultSet(c, rows) :
             rows \in SeqsUpTo({RowOf(c, f) :
                                  f \in {NullOpt, Some("1"), Some("0")}},
                               MaxRows)} : c \in 0..2 }

\* IsTrueHandler: each callback maps failed() to failed()
IsTrue_on_column_count(f, count) ==
  IF count # 1 THEN Some(ErrTooManyColumns) ELSE f

IsTrue_on_row(f, row, on_condition_fail_error) ==
  IF Len(row) = 0 THEN Some(ErrNoFields)
  ELSE IF row[1] = NullOpt THEN Some(ErrGotNull)
  ELSE IF row[1][1] # "1" THEN Some(on_condition_fail_error)
  ELSE f

\* on_row_end() content with any number of rows
IsTrue_on_row_end_any_count(f, row_count) == f

IsTrue_on_row_end(f, row_count) ==
  IF row_count # 1 THEN Some(ErrTooManyRows) ELSE f

RECURSIVE IsTrueRows(_, _, _, _)
IsTrueRows(f, rows, i, on_condition_fail_error) ==
  IF i > Len(rows) THEN f
  ELSE IsTrueRows(IsTrue_on_row(f, rows[i], on_condition_fail_error),
                  rows, i + 1, on_condition_fail_error)

IsTrueHandler(f, stream, on_condition_fail_error) ==
  IF stream.kind = "error" THEN Some(stream.err)
  ELSE IF stream.kind = "ok" THEN f
  ELSE IsTrue_on_row_end(
         IsTrueRows(IsTrue_on_column_count(f, stream.columns), stream.rows, 1,
                    on_condition_fail_error),
         Len(stream.rows))

\* FailedQueryHandler::on_error
FailedQueryHandler(f, stream) ==
  IF stream.kind = "error" THEN Some(stream.err) ELSE f

FailedQueryStreams == {OkResult} \cup {ErrorResult(e) : e \in QueryErrors}

\* SelectSessionVariablesHandler: h is [something_failed, session_variables]
SysVarRows ==
  { <<Some("sql_mode"), Some("ANSI")>>, <<NullOpt, Some("v")>> }

SysVarStreams ==
  {OkResult} \cup {ErrorResult(e) : e \in QueryErrors} \cup
  {ResultSet(2, rows) : rows \in SeqsUpTo(SysVarRows, MaxRows)} \cup
  {ResultSet(1, rows) : rows \in SeqsUpTo({<<Some("x")>>}, 1)}

SelectVars_on_column_count(h, count) ==
  IF count # 2 THEN [h EXCEPT !.something_failed = TRUE] ELSE h

\* on_row() passing over a row whose name is NULL
SelectVars_on_row_skips_null(h, row) ==
  IF h.something_failed \/ row[1] = NullOpt THEN h
  ELSE [h EXCEPT !.session_variables = Append(@, <<row[1][1], row[2]>>)]

SelectVars_on_row(h, row) ==
  IF h.something_failed THEN h
  ELSE IF row[1] = NullOpt THEN [h EXCEPT !.something_failed = TRUE]
  ELSE [h EXCEPT !.session_variables = Append(@, <<row[1][1], row[2]>>)]

RECURSIVE SelectVarsRows(_, _, _)
SelectVarsRows(h, rows, i) ==
  IF i > Len(rows) THEN h
  ELSE SelectVarsRows(SelectVars_on_row(h, rows[i]), rows, i + 1)

RECURSIVE SetAll(_, _, _)
SetAll(sv, captured, i) ==
  IF i > Len(captured) THEN sv
  ELSE SetAll(Set(sv, captured[i][1], captured[i][2]), captured, i + 1)

\* the store and the some_state_changed flag after the whole stream
SelectSessionVariablesHandler(sv, changed, stream) ==
  IF stream.kind \in {"ok", "error"}
  THEN [sysvars |-> sv, some_state_changed |-> TRUE]
  ELSE LET h0 == [something_failed |-> FALSE, session_variables |-> <<>>]
           h == SelectVarsRows(SelectVars_on_column_count(h0, stream.columns),
                               stream.rows, 1)
       IN  IF h.something_failed
           THEN [sysvars |-> sv, some_state_changed |-> TRUE]
           ELSE [sysvars |-> SetAll(sv, h.session_variables, 1),
                 some_state_changed |-> changed]

(***************************************************************************)
(* Tracing.  A handle is nullptr or points to an event that is open or was *)
(* ended with a status.  trace_span() makes a new open event under a       *)
(* parent (nullptr under a null parent), trace_span_end() ends the event   *)
(* of a handle; both do nothing on nullptr.                                *)
(***************************************************************************)
trace_span(h, phase, parent) ==
  [h EXCEPT ![phase] = IF parent = "nullptr" THEN "nullptr" ELSE "open"]

trace_span_end(h, phase, status) ==
  IF h[phase] = "nullptr" THEN h ELSE [h EXCEPT ![phase] = status]

\* the phases with an event that lost its handle while open
Abandoned(h, ab, phase) == IF h[phase] = "open" THEN ab \cup {phase} ELSE ab

\* the phases with an event that was ended more than once
EndedTwice(h, tw, phase) ==
  IF h[phase] \in {"kOk", "kError"} THEN tw \cup {phase} ELSE tw

(***************************************************************************)
(* LazyConnector::process(): one action per stage.                         *)
(***************************************************************************)
\* the machine is on top of the processor stack and is being called
CanProcess ==
  /\ pending = "none"
  /\ ~timer_armed
  /\ ~thrown
  /\ result \notin {"Done", "Error"}

\* on_error_(err), and who invoked it
on_error(log, from, err) == Append(log, [from |-> from, err |-> err])

\* connection()->connection_sharing_possible()
connection_sharing_possible == connection_sharing /\ ~some_state_changed

connect ==
  /\ CanProcess
  /\ stage = "Connect"
  /\ handle' = trace_span(handle, "connect", parent_event)
  /\ abandoned' = Abandoned(handle, abandoned, "connect")
  /\ IF ~server_open
     THEN /\ stage' = "Connected"
          /\ pending' = "ConnectProcessor"
          /\ pending_arg' = <<>>
     ELSE /\ stage' = "Done"
          /\ UNCHANGED <<pending, pending_arg>>
  /\ result' = "Again"
  /\ UNCHANGED <<failed, retry_connect, already_fallback, in_handshake,
                 trx_stmt, fetcher_result, parent_event, on_error_,
                 clientVars, serverVars, connVars, timer_armed,
                 timer_canceled, clock, thrown, logVars, ended_twice,
                 on_error_log, client_replies, suspends, restarts,
                 failed_phase, greet_log, other_failure>>

\* connected() taking the reset-connection path during the handshake too
connected_resets_in_handshake ==
  /\ CanProcess
  /\ stage = "Connected"
  /\ IF ~server_open
     THEN /\ stage' = "Done"
          /\ result' = "Again"
          /\ UNCHANGED <<failed, retry_connect, already_fallback,
                         in_handshake, trx_stmt, fetcher_result, handle,
                         parent_event, on_error_, clientVars, serverVars,
                         connVars, pending, pending_arg, timer_armed,
                         timer_canceled, clock, thrown, logVars, obsVars>>
     ELSE /\ handle' = trace_span(handle, "authenticate", handle["connect"])
          /\ abandoned' = Abandoned(handle, abandoned, "authenticate")
          /\ trx_stmt' = IF trx_characteristics # NullOpt
                         THEN trx_characteristics[1]
                         ELSE trx_stmt
          /\ IF server_greeting
             THEN /\ client_greeting_sent' = TRUE
                  /\ IF /\ client_username = server_username
                        /\ client_attributes = server_attributes
                     THEN /\ pending' = "ResetConnectionSender"
                          /\ is_authenticated' = TRUE
                     ELSE /\ pending' = "ChangeUserSender"
                          /\ UNCHANGED is_authenticated
             ELSE /\ pending' = "ServerGreetor"
                  /\ UNCHANGED <<client_greeting_sent, is_authenticated>>
          /\ pending_arg' = <<>>
          /\ stage' = "Authenticated"
          /\ result' = "Again"
          /\ UNCHANGED <<failed, retry_connect, already_fallback,
                         in_handshake, fetcher_result, parent_event,
                         on_error_, clientVars, serverVars,
                         expected_server_mode, sysvars, some_state_changed,
                         trx_characteristics, timer_armed, timer_canceled,
                         clock, thrown, logVars, ended_twice, on_error_log,
                         client_replies, suspends, restarts, failed_phase,
                         greet_log, other_failure>>

\* Stage::Connected
connected ==
  /\ CanProcess
  /\ stage = "Connected"
  /\ IF ~server_open
     THEN /\ stage' = "Done"
          /\ result' = "Again"
          /\ UNCHANGED <<failed, retry_connect, already_fallback,
                         in_handshake, trx_stmt, fetcher_result, handle,
                         parent_event, on_error_, clientVars, serverVars,
                         connVars, pending, pending_arg, timer_armed,
                         timer_canceled, clock, thrown, logVars, obsVars>>
     ELSE /\ handle' = trace_span(handle, "authenticate", handle["connect"])
          /\ abandoned' = Abandoned(handle, abandoned, "authenticate")
          /\ trx_stmt' = IF trx_characteristics # NullOpt
                         THEN trx_characteristics[1]
                         ELSE trx_stmt
          /\ IF server_greeting
             THEN /\ client_greeting_sent' = TRUE
                  /\ IF /\ ~in_handshake
                        /\ client_username = server_username
                        /\ client_attributes = server_attributes
                     THEN /\ pending' = "ResetConnectionSender"
                          /\ is_authenticated' = TRUE
                     ELSE /\ pending' = "ChangeUserSender"
                          /\ UNCHANGED is_authenticated
             ELSE /\ pending' = "ServerGreetor"
                  /\ UNCHANGED <<client_greeting_sent, is_authenticated>>
          /\ pending_arg' = <<>>
          /\ stage' = "Authenticated"
          /\ result' = "Again"
          /\ UNCHANGED <<failed, retry_connect, already_fallback,
                         in_handshake, fetcher_result, parent_event,
                         on_error_, clientVars, serverVars,
                         expected_server_mode, sysvars, some_state_changed,
                         trx_characteristics, timer_armed, timer_canceled,
                         clock, thrown, logVars, ended_twice, on_error_log,
                         client_replies, suspends, restarts, failed_phase,
                         greet_log, other_failure>>

\* authenticated() going back to Connect without a timer: it returns Again
authenticated_retries_at_once ==
  /\ CanProcess
  /\ stage = "Authenticated"
  /\ ended_twice' = EndedTwice(handle, ended_twice, "authenticate")
  /\ IF ~is_authenticated \/ ~server_open
     THEN /\ handle' = trace_span_end(handle, "authenticate", "kError")
          /\ IF retry_connect
             THEN /\ retry_connect' = FALSE
                  /\ stage' = "Connect"
                  /\ result' = "Again"
                  /\ UNCHANGED <<timer_armed, suspends>>
             ELSE /\ stage' = "Done"
                  /\ result' = "Again"
                  /\ UNCHANGED <<retry_connect, timer_armed, suspends>>
     ELSE /\ handle' = trace_span_end(handle, "authenticate", "kOk")
          /\ stage' = "SetVars"
          /\ result' = "Again"
          /\ UNCHANGED <<retry_connect, timer_armed, suspends>>
  /\ UNCHANGED <<failed, already_fallback, in_handshake, trx_stmt,
                 fetcher_result, parent_event, on_error_, clientVars,
                 serverVars, connVars, pending, pending_arg, timer_canceled,
                 clock, thrown, logVars, abandoned, on_error_log,
                 client_replies, restarts, failed_phase, greet_log,
                 other_failure>>

\* Stage::Authenticated
authenticated ==
  /\ CanProcess
  /\ stage = "Authenticated"
  /\ ended_twice' = EndedTwice(handle, ended_twice, "authenticate")
  /\ IF ~is_authenticated \/ ~server_open
     THEN /\ handle' = trace_span_end(handle, "authenticate", "kError")
          /\ IF retry_connect
             THEN /\ retry_connect' = FALSE
                  /\ stage' = "Connect"
                  /\ timer_armed' = TRUE
                  /\ result' = "Suspend"
                  /\ suspends' = suspends + 1
             ELSE /\ stage' = "Done"
                  /\ result' = "Again"
                  /\ UNCHANGED <<retry_connect, timer_armed, suspends>>
     ELSE /\ handle' = trace_span_end(handle, "authenticate", "kOk")
          /\ stage' = "SetVars"
          /\ result' = "Again"
          /\ UNCHANGED <<retry_connect, timer_armed, suspends>>
  /\ UNCHANGED <<failed, already_fallback, in_handshake, trx_stmt,
                 fetcher_result, parent_event, on_error_, clientVars,
                 serverVars, connVars, pending, pending_arg, timer_canceled,
                 clock, thrown, logVars, abandoned, on_error_log,
                 client_replies, restarts, failed_phase, greet_log,
                 other_failure>>

set_vars ==
  /\ CanProcess
  /\ stage = "SetVars"
  /\ LET need_session_trackers == connection_sharing /\ greeting_from_router
         stmt == SetVarsStmt(sysvars, need_session_trackers)
     IN  IF stmt # <<>>
         THEN /\ stage' = "SetVarsDone"
              /\ handle' = trace_span(handle, "set_vars", handle["connect"])
              /\ abandoned' = Abandoned(handle, abandoned, "set_vars")
              /\ pending' = "QuerySender_FailedQueryHandler"
              /\ pending_arg' = stmt
         ELSE /\ stage' = "SetServerOption"
              /\ UNCHANGED <<handle, abandoned, pending, pending_arg>>
  /\ result' = "Again"
  /\ UNCHANGED <<failed, retry_connect, already_fallback, in_handshake,
                 trx_stmt, fetcher_result, parent_event, on_error_,
                 clientVars, serverVars, connVars, timer_armed,
                 timer_canceled, clock, thrown, logVars, ended_twice,
                 on_error_log, client_replies, suspends, restarts,
                 failed_phase, greet_log, other_failure>>
\* set_vars_done() going on to FetchSysVars
set_vars_done_skips ==
  /\ CanProcess
  /\ stage = "SetVarsDone"
  /\ ended_twice' = EndedTwice(handle, ended_twice, "set_vars")
  /\ handle' = trace_span_end(handle, "set_vars", "kOk")
  /\ stage' = "FetchSysVars"
  /\ result' = "Again"
  /\ UNCHANGED <<failed, retry_connect, already_fallback, in_handshake,
                 trx_stmt, fetcher_result, parent_event, on_error_,
                 clientVars, serverVars, connVars, pending, pending_arg,
                 timer_armed, timer_canceled, clock, thrown, logVars,
                 abandoned, on_error_log, client_replies, suspends, restarts,
                 failed_phase, greet_log, other_failure>>


set_vars_done ==
  /\ CanProcess
  /\ stage = "SetVarsDone"
  /\ ended_twice' = EndedTwice(handle, ended_twice, "set_vars")
  /\ handle' = trace_span_end(handle, "set_vars", "kOk")
  /\ stage' = "SetServerOption"
  /\ result' = "Again"
  /\ UNCHANGED <<failed, retry_connect, already_fallback, in_handshake,
                 trx_stmt, fetcher_result, parent_event, on_error_,
                 clientVars, serverVars, connVars, pending, pending_arg,
                 timer_armed, timer_canceled, clock, thrown, logVars,
                 abandoned, on_error_log, client_replies, suspends, restarts,
                 failed_phase, greet_log, other_failure>>

set_server_option ==
  /\ CanProcess
  /\ stage = "SetServerOption"
  /\ IF client_multi = server_multi
     THEN /\ stage' = "FetchSysVars"
          /\ UNCHANGED <<pending, pending_arg>>
     ELSE /\ stage' = "SetServerOptionDone"
          /\ pending' = "SetOptionSender"
          /\ pending_arg' = IF client_multi
                            THEN <<"MYSQL_OPTION_MULTI_STATEMENTS_ON">>
                            ELSE <<"MYSQL_OPTION_MULTI_STATEMENTS_OFF">>
  /\ result' = "Again"
  /\ UNCHANGED <<failed, retry_connect, already_fallback, in_handshake,
                 trx_stmt, fetcher_result, handle, parent_event, on_error_,
                 clientVars, serverVars, connVars, timer_armed,
                 timer_canceled, clock, thrown, logVars, obsVars>>

set_server_option_done ==
  /\ CanProcess
  /\ stage = "SetServerOptionDone"
  /\ stage' = IF failed # NullOpt THEN "Done" ELSE "FetchSysVars"
  /\ result' = "Again"
  /\ UNCHANGED <<failed, retry_connect, already_fallback, in_handshake,
                 trx_stmt, fetcher_result, handle, parent_event, on_error_,
                 clientVars, serverVars, connVars, pending, pending_arg,
                 timer_armed, timer_canceled, clock, thrown, logVars,
                 obsVars>>

fetch_sys_vars ==
  /\ CanProcess
  /\ stage = "FetchSysVars"
  /\ LET missing ==
           IF connection_sharing_possible
           THEN SelectSeq(<<"collation_connection", "character_set_client",
                            "sql_mode">>,
                          LAMBDA n : Find(sysvars, n) = NullOpt)
           ELSE <<>>
     IN  IF missing # <<>>
         THEN /\ handle' = trace_span(handle, "fetch_sys_vars", handle["connect"])
              /\ abandoned' = Abandoned(handle, abandoned, "fetch_sys_vars")
              /\ stage' = "FetchSysVarsDone"
              /\ pending' = "QuerySender_SelectSessionVariablesHandler"
              /\ pending_arg' = missing
         ELSE /\ stage' = "SetSchema"
              /\ UNCHANGED <<handle, abandoned, pending, pending_arg>>
  /\ result' = "Again"
  /\ UNCHANGED <<failed, retry_connect, already_fallback, in_handshake,
                 trx_stmt, fetcher_result, parent_event, on_error_,
                 clientVars, serverVars, connVars, timer_armed,
                 timer_canceled, clock, thrown, logVars, ended_twice,
                 on_error_log, client_replies, suspends, restarts,
                 failed_phase, greet_log, other_failure>>

fetch_sys_vars_done ==
  /\ CanProcess
  /\ stage = "FetchSysVarsDone"
  /\ ended_twice' = EndedTwice(handle, ended_twice, "fetch_sys_vars")
  /\ handle' = trace_span_end(handle, "fetch_sys_vars", "kOk")
  /\ stage' = "SetSchema"
  /\ result' = "Again"
  /\ UNCHANGED <<failed, retry_connect, already_fallback, in_handshake,
                 trx_stmt, fetcher_result, parent_event, on_error_,
                 clientVars, serverVars, connVars, pending, pending_arg,
                 timer_armed, timer_canceled, clock, thrown, logVars,
                 abandoned, on_error_log, client_replies, suspends, restarts,
                 failed_phase, greet_log, other_failure>>

\* set_schema() switching to every schema the client names
set_schema_without_comparison ==
  /\ CanProcess
  /\ stage = "SetSchema"
  /\ IF client_schema # ""
     THEN /\ handle' = trace_span(handle, "set_schema", handle["connect"])
          /\ abandoned' = Abandoned(handle, abandoned, "set_schema")
          /\ stage' = "SetSchemaDone"
          /\ pending' = "InitSchemaSender"
          /\ pending_arg' = <<client_schema>>
     ELSE /\ stage' = "WaitGtidExecuted"
          /\ UNCHANGED <<handle, abandoned, pending, pending_arg>>
  /\ result' = "Again"
  /\ UNCHANGED <<failed, retry_connect, already_fallback, in_handshake,
                 trx_stmt, fetcher_result, parent_event, on_error_,
                 clientVars, serverVars, connVars, timer_armed,
                 timer_canceled, clock, thrown, logVars, ended_twice,
                 on_error_log, client_replies, suspends, restarts,
                 failed_phase, greet_log, other_failure>>

\* Stage::SetSchema
set_schema ==
  /\ CanProcess
  /\ stage = "SetSchema"
  /\ IF client_schema # "" /\ client_schema # server_schema
     THEN /\ handle' = trace_span(handle, "set_schema", handle["connect"])
          /\ abandoned' = Abandoned(handle, abandoned, "set_schema")
          /\ stage' = "SetSchemaDone"
          /\ pending' = "InitSchemaSender"
          /\ pending_arg' = <<client_schema>>
     ELSE /\ stage' = "WaitGtidExecuted"
          /\ UNCHANGED <<handle, abandoned, pending, pending_arg>>
  /\ result' = "Again"
  /\ UNCHANGED <<failed, retry_connect, already_fallback, in_handshake,
                 trx_stmt, fetcher_result, parent_event, on_error_,
                 clientVars, serverVars, connVars, timer_armed,
                 timer_canceled, clock, thrown, logVars, ended_twice,
                 on_error_log, client_replies, suspends, restarts,
                 failed_phase, greet_log, other_failure>>

set_schema_done ==
  /\ CanProcess
  /\ stage = "SetSchemaDone"
  /\ ended_twice' = EndedTwice(handle, ended_twice, "set_schema")
  /\ handle' = trace_span_end(handle, "set_schema", "kOk")
  /\ stage' = IF failed # NullOpt THEN "Done" ELSE "WaitGtidExecuted"
  /\ result' = "Again"
  /\ UNCHANGED <<failed, retry_connect, already_fallback, in_handshake,
                 trx_stmt, fetcher_result, parent_event, on_error_,
                 clientVars, serverVars, connVars, pending, pending_arg,
                 timer_armed, timer_canceled, clock, thrown, logVars,
                 abandoned, on_error_log, client_replies, suspends, restarts,
                 failed_phase, greet_log, other_failure>>

\* the query of wait_gtid_executed() always waiting on the server
WaitGtidQuery_always_waits(gtid_executed, max_replication_lag) ==
  <<"SELECT NOT WAIT_FOR_EXECUTED_GTID_SET", gtid_executed,
    max_replication_lag>>

\* the query wait_gtid_executed() sends: its function, the GTID set it
\* quotes and, when it waits, the seconds it waits
WaitGtidQuery(gtid_executed, max_replication_lag) ==
  IF max_replication_lag = 0
  THEN <<"SELECT GTID_SUBSET", gtid_executed>>
  ELSE <<"SELECT NOT WAIT_FOR_EXECUTED_GTID_SET", gtid_executed,
         max_replication_lag>>

\* wait_gtid_executed() waiting whatever the expected server mode is
wait_gtid_executed_any_mode ==
  /\ CanProcess
  /\ stage = "WaitGtidExecuted"
  /\ \E wait_for_my_writes \in BOOLEAN, gtid_executed \in GtidSets,
        max_replication_lag \in {0, 1} :
       IF /\ wait_for_my_writes
          /\ gtid_executed # ""
       THEN /\ handle' = trace_span(handle, "wait_gtid_executed", handle["connect"])
            /\ abandoned' = Abandoned(handle, abandoned, "wait_gtid_executed")
            /\ stage' = "WaitGtidExecutedDone"
            /\ pending' = "QuerySender_IsTrueHandler"
            /\ pending_arg' = WaitGtidQuery(gtid_executed, max_replication_lag)
       ELSE /\ stage' = "SetTrxCharacteristics"
            /\ UNCHANGED <<handle, abandoned, pending, pending_arg>>
  /\ result' = "Again"
  /\ UNCHANGED <<failed, retry_connect, already_fallback, in_handshake,
                 trx_stmt, fetcher_result, parent_event, on_error_,
                 clientVars, serverVars, connVars, timer_armed,
                 timer_canceled, clock, thrown, logVars, ended_twice,
                 on_error_log, client_replies, suspends, restarts,
                 failed_phase, greet_log, other_failure>>

\* wait_for_my_writes(), gtid_at_least_executed() and
\* wait_for_my_writes_timeout() are read here and nowhere else
wait_gtid_executed ==
  /\ CanProcess
  /\ stage = "WaitGtidExecuted"
  /\ \E wait_for_my_writes \in BOOLEAN, gtid_executed \in GtidSets,
        max_replication_lag \in {0, 1} :
       IF /\ wait_for_my_writes
          /\ expected_server_mode = "ReadOnly"
          /\ gtid_executed # ""
       THEN /\ handle' = trace_span(handle, "wait_gtid_executed", handle["connect"])
            /\ abandoned' = Abandoned(handle, abandoned, "wait_gtid_executed")
            /\ stage' = "WaitGtidExecutedDone"
            /\ pending' = "QuerySender_IsTrueHandler"
            /\ pending_arg' = WaitGtidQuery(gtid_executed, max_replication_lag)
       ELSE /\ stage' = "SetTrxCharacteristics"
            /\ UNCHANGED <<handle, abandoned, pending, pending_arg>>
  /\ result' = "Again"
  /\ UNCHANGED <<failed, retry_connect, already_fallback, in_handshake,
                 trx_stmt, fetcher_result, parent_event, on_error_,
                 clientVars, serverVars, connVars, timer_armed,
                 timer_canceled, clock, thrown, logVars, ended_twice,
                 on_error_log, client_replies, suspends, restarts,
                 failed_phase, greet_log, other_failure>>
\* wait_gtid_executed_done() with the failed() test inverted
wait_gtid_executed_done_inverted ==
  /\ CanProcess
  /\ stage = "WaitGtidExecutedDone"
  /\ ended_twice' = EndedTwice(handle, ended_twice, "wait_gtid_executed")
  /\ IF failed = NullOpt
     THEN /\ handle' = trace_span_end(handle, "wait_gtid_executed", "kError")
          /\ stage' = "PoolOrClose"
     ELSE /\ handle' = trace_span_end(handle, "wait_gtid_executed", "kOk")
          /\ stage' = "SetTrxCharacteristics"
  /\ result' = "Again"
  /\ UNCHANGED <<failed, retry_connect, already_fallback, in_handshake,
                 trx_stmt, fetcher_result, parent_event, on_error_,
                 clientVars, serverVars, connVars, pending, pending_arg,
                 timer_armed, timer_canceled, clock, thrown, logVars,
                 abandoned, on_error_log, client_replies, suspends, restarts,
                 failed_phase, greet_log, other_failure>>


wait_gtid_executed_done ==
  /\ CanProcess
  /\ stage = "WaitGtidExecutedDone"
  /\ ended_twice' = EndedTwice(handle, ended_twice, "wait_gtid_executed")
  /\ IF failed # NullOpt
     THEN /\ handle' = trace_span_end(handle, "wait_gtid_executed", "kError")
          /\ stage' = "PoolOrClose"
     ELSE /\ handle' = trace_span_end(handle, "wait_gtid_executed", "kOk")
          /\ stage' = "SetTrxCharacteristics"
  /\ result' = "Again"
  /\ UNCHANGED <<failed, retry_connect, already_fallback, in_handshake,
                 trx_stmt, fetcher_result, parent_event, on_error_,
                 clientVars, serverVars, connVars, pending, pending_arg,
                 timer_armed, timer_canceled, clock, thrown, logVars,
                 abandoned, on_error_log, client_replies, suspends, restarts,
                 failed_phase, greet_log, other_failure>>

\* pool_server_connection() fails, pools the connection (it leaves the
\* session), or finds the pool full (the connection stays and is closed by
\* a QuitSender)
pool_or_close ==
  /\ CanProcess
  /\ stage = "PoolOrClose"
  /\ stage' = "FallbackToWrite"
  /\ \E pool_res \in {"error", "pooled", "full"} :
       /\ result' = IF pool_res = "error" THEN "Error" ELSE "Again"
       /\ server_open' = IF pool_res = "pooled" THEN FALSE ELSE server_open
       /\ pending' = IF pool_res = "full" THEN "QuitSender" ELSE pending
       /\ other_failure' = (other_failure \/ pool_res = "error")
  /\ UNCHANGED <<failed, retry_connect, already_fallback, in_handshake,
                 trx_stmt, fetcher_result, handle, parent_event, on_error_,
                 clientVars, server_greeting, server_username,
                 server_attributes, server_schema, server_multi,
                 server_seq_id, server_protocol, connVars, pending_arg,
                 timer_armed, timer_canceled, clock, thrown, logVars,
                 abandoned, ended_twice, on_error_log, client_replies,
                 suspends, restarts, failed_phase, greet_log>>
\* the guard of fallback_to_write(): no restart after a fallback, and none
\* for a session that asked for a read-write target
fallback_refused(already, mode) == already \/ mode = "ReadWrite"

\* fallback_to_write() without "already_fallback_ = true"
fallback_to_write_no_flag ==
  /\ CanProcess
  /\ stage = "FallbackToWrite"
  /\ IF fallback_refused(already_fallback, expected_server_mode)
     THEN /\ stage' = "Done"
          /\ UNCHANGED <<expected_server_mode, failed, failed_phase, handle,
                         ended_twice, restarts>>
     ELSE /\ expected_server_mode' = "ReadWrite"
          /\ failed' = NullOpt
          /\ failed_phase' = "none"
          /\ handle' = trace_span_end(handle, "connect", "kOk")
          /\ ended_twice' = EndedTwice(handle, ended_twice, "connect")
          /\ stage' = "Connect"
          /\ restarts' = restarts + 1
  /\ result' = "Again"
  /\ UNCHANGED <<retry_connect, already_fallback, in_handshake, trx_stmt,
                 fetcher_result, parent_event, on_error_, clientVars,
                 serverVars, is_authenticated, client_greeting_sent, sysvars,
                 some_state_changed, trx_characteristics, pending,
                 pending_arg, timer_armed, timer_canceled, clock, thrown,
                 logVars, abandoned, on_error_log, client_replies, suspends,
                 greet_log, other_failure>>

\* Stage::FallbackToWrite
fallback_to_write ==
  /\ CanProcess
  /\ stage = "FallbackToWrite"
  /\ IF fallback_refused(already_fallback, expected_server_mode)
     THEN /\ stage' = "Done"
          /\ UNCHANGED <<expected_server_mode, already_fallback, failed,
                         failed_phase, handle, ended_twice,
                         restarts>>
     ELSE /\ expected_server_mode' = "ReadWrite"
          /\ already_fallback' = TRUE
          /\ failed' = NullOpt
          /\ failed_phase' = "none"
          /\ handle' = trace_span_end(handle, "connect", "kOk")
          /\ ended_twice' = EndedTwice(handle, ended_twice, "connect")
          /\ stage' = "Connect"
          /\ restarts' = restarts + 1
  /\ result' = "Again"
  /\ UNCHANGED <<retry_connect, in_handshake, trx_stmt, fetcher_result,
                 parent_event, on_error_, clientVars, serverVars,
                 is_authenticated, client_greeting_sent, sysvars,
                 some_state_changed, trx_characteristics, pending,
                 pending_arg, timer_armed, timer_canceled, clock, thrown,
                 logVars, abandoned, on_error_log, client_replies, suspends,
                 greet_log, other_failure>>

\* position of the first ';' of a statement, 0 if it has none
FindSemi(stmt) ==
  IF \E i \in 1..Len(stmt) : stmt[i] = ";"
  THEN CHOOSE i \in 1..Len(stmt) :
         stmt[i] = ";" /\ \A j \in 1..(i - 1) : stmt[j] # ";"
  ELSE 0

\* set_trx_characteristics() leaving the space after the semicolon
set_trx_characteristics_keeps_space ==
  /\ CanProcess
  /\ stage = "SetTrxCharacteristics"
  /\ IF trx_stmt = <<>>
     THEN /\ stage' = "FetchUserAttrs"
          /\ UNCHANGED <<handle, abandoned, trx_stmt, pending, pending_arg>>
     ELSE LET semi_pos == FindSemi(trx_stmt)
              erased == SubSeq(trx_stmt, semi_pos + 1, Len(trx_stmt))
          IN  /\ handle' = trace_span(handle, "set_trx_characteristics", handle["connect"])
              /\ abandoned' = Abandoned(handle, abandoned, "set_trx_characteristics")
              /\ stage' = "SetTrxCharacteristicsDone"
              /\ trx_stmt' =
                   IF semi_pos = 0 THEN <<>>
                   ELSE erased
              /\ pending' = "QuerySender_FailedQueryHandler"
              /\ pending_arg' =
                   IF semi_pos = 0 THEN trx_stmt
                   ELSE SubSeq(trx_stmt, 1, semi_pos - 1)
  /\ result' = "Again"
  /\ UNCHANGED <<failed, retry_connect, already_fallback, in_handshake,
                 fetcher_result, parent_event, on_error_, clientVars,
                 serverVars, connVars, timer_armed, timer_canceled, clock,
                 thrown, logVars, ended_twice, on_error_log, client_replies,
                 suspends, restarts, failed_phase, greet_log, other_failure>>

\* set_trx_characteristics() remembering the whole statement again
set_trx_characteristics_keeps_stmt ==
  /\ CanProcess
  /\ stage = "SetTrxCharacteristics"
  /\ IF trx_stmt = <<>>
     THEN /\ stage' = "FetchUserAttrs"
          /\ UNCHANGED <<handle, abandoned, trx_stmt, pending, pending_arg>>
     ELSE LET semi_pos == FindSemi(trx_stmt)
              erased == SubSeq(trx_stmt, semi_pos + 1, Len(trx_stmt))
          IN  /\ handle' = trace_span(handle, "set_trx_characteristics", handle["connect"])
              /\ abandoned' = Abandoned(handle, abandoned, "set_trx_characteristics")
              /\ stage' = "SetTrxCharacteristicsDone"
              /\ trx_stmt' = trx_stmt
              /\ pending' = "QuerySender_FailedQueryHandler"
              /\ pending_arg' =
                   IF semi_pos = 0 THEN trx_stmt
                   ELSE SubSeq(trx_stmt, 1, semi_pos - 1)
  /\ result' = "Again"
  /\ UNCHANGED <<failed, retry_connect, already_fallback, in_handshake,
                 fetcher_result, parent_event, on_error_, clientVars,
                 serverVars, connVars, timer_armed, timer_canceled, clock,
                 thrown, logVars, ended_twice, on_error_log, client_replies,
                 suspends, restarts, failed_phase, greet_log, other_failure>>

\* Stage::SetTrxCharacteristics
set_trx_characteristics ==
  /\ CanProcess
  /\ stage = "SetTrxCharacteristics"
  /\ IF trx_stmt = <<>>
     THEN /\ stage' = "FetchUserAttrs"
          /\ UNCHANGED <<handle, abandoned, trx_stmt, pending, pending_arg>>
     ELSE LET semi_pos == FindSemi(trx_stmt)
              erased == SubSeq(trx_stmt, semi_pos + 1, Len(trx_stmt))
          IN  /\ handle' = trace_span(handle, "set_trx_characteristics", handle["connect"])
              /\ abandoned' = Abandoned(handle, abandoned, "set_trx_characteristics")
              /\ stage' = "SetTrxCharacteristicsDone"
              /\ trx_stmt' =
                   IF semi_pos = 0 THEN <<>>
                   ELSE IF erased # <<>> /\ erased[1] = " "
                        THEN Tail(erased)
                        ELSE erased
              /\ pending' = "QuerySender_FailedQueryHandler"
              /\ pending_arg' =
                   IF semi_pos = 0 THEN trx_stmt
                   ELSE SubSeq(trx_stmt, 1, semi_pos - 1)
  /\ result' = "Again"
  /\ UNCHANGED <<failed, retry_connect, already_fallback, in_handshake,
                 fetcher_result, parent_event, on_error_, clientVars,
                 serverVars, connVars, timer_armed, timer_canceled, clock,
                 thrown, logVars, ended_twice, on_error_log, client_replies,
                 suspends, restarts, failed_phase, greet_log, other_failure>>
\* set_trx_characteristics_done() resetting failed() before the next part
set_trx_characteristics_done_clears ==
  /\ CanProcess
  /\ stage = "SetTrxCharacteristicsDone"
  /\ ended_twice' = EndedTwice(handle, ended_twice, "set_trx_characteristics")
  /\ handle' = trace_span_end(handle, "set_trx_characteristics",
                              IF failed # NullOpt THEN "kError" ELSE "kOk")
  /\ failed' = NullOpt
  /\ stage' = IF trx_stmt = <<>> THEN "FetchUserAttrs"
              ELSE "SetTrxCharacteristics"
  /\ result' = "Again"
  /\ UNCHANGED <<retry_connect, already_fallback, in_handshake, trx_stmt,
                 fetcher_result, parent_event, on_error_, clientVars,
                 serverVars, connVars, pending, pending_arg, timer_armed,
                 timer_canceled, clock, thrown, logVars, abandoned,
                 on_error_log, client_replies, suspends, restarts,
                 failed_phase, greet_log, other_failure>>


set_trx_characteristics_done ==
  /\ CanProcess
  /\ stage = "SetTrxCharacteristicsDone"
  /\ ended_twice' = EndedTwice(handle, ended_twice, "set_trx_characteristics")
  /\ handle' = trace_span_end(handle, "set_trx_characteristics", IF failed # NullOpt THEN "kError" ELSE "kOk")
  /\ stage' = IF trx_stmt = <<>> THEN "FetchUserAttrs"
              ELSE "SetTrxCharacteristics"
  /\ result' = "Again"
  /\ UNCHANGED <<failed, retry_connect, already_fallback, in_handshake,
                 trx_stmt, fetcher_result, parent_event, on_error_,
                 clientVars, serverVars, connVars, pending, pending_arg,
                 timer_armed, timer_canceled, clock, thrown, logVars,
                 abandoned, on_error_log, client_replies, suspends, restarts,
                 failed_phase, greet_log, other_failure>>

\* context().router_require_enforce() is read here and nowhere else
fetch_user_attrs ==
  /\ CanProcess
  /\ stage = "FetchUserAttrs"
  /\ \E router_require_enforce \in BOOLEAN :
       IF ~router_require_enforce
       THEN /\ stage' = "SendAuthOk"
            /\ UNCHANGED <<pending, pending_arg>>
       ELSE /\ pending' = "RouterRequireFetcher"
            /\ pending_arg' = <<>>
            /\ stage' = "FetchUserAttrsDone"
  /\ result' = "Again"
  /\ UNCHANGED <<failed, retry_connect, already_fallback, in_handshake,
                 trx_stmt, fetcher_result, handle, parent_event, on_error_,
                 clientVars, serverVars, connVars, timer_armed,
                 timer_canceled, clock, thrown, logVars, obsVars>>
\* fetch_user_attrs_done() returning enforce()'s error to the caller
fetch_user_attrs_done_returns_error ==
  /\ CanProcess
  /\ stage = "FetchUserAttrsDone"
  /\ IF fetcher_result # "ok"
     THEN /\ failed' = Some(ErrAccessDenied)
          /\ failed_phase' = stage
          /\ stage' = "Done"
          /\ result' = "Again"
          /\ UNCHANGED other_failure
     ELSE \E enforce_res \in BOOLEAN :
            IF ~enforce_res
            THEN /\ result' = "Error"
                 /\ other_failure' = TRUE
                 /\ UNCHANGED <<stage, failed, failed_phase>>
            ELSE /\ stage' = "SendAuthOk"
                 /\ result' = "Again"
                 /\ UNCHANGED <<failed, failed_phase, other_failure>>
  /\ UNCHANGED <<retry_connect, already_fallback, in_handshake, trx_stmt,
                 fetcher_result, handle, parent_event, on_error_, clientVars,
                 serverVars, connVars, pending, pending_arg, timer_armed,
                 timer_canceled, clock, thrown, logVars, abandoned,
                 ended_twice, on_error_log, client_replies, suspends,
                 restarts, greet_log>>


\* fetch_user_attrs_done() going on although enforce() failed
fetch_user_attrs_done_ignores_enforce ==
  /\ CanProcess
  /\ stage = "FetchUserAttrsDone"
  /\ IF fetcher_result # "ok"
     THEN /\ failed' = Some(ErrAccessDenied)
          /\ failed_phase' = stage
          /\ stage' = "Done"
          /\ UNCHANGED other_failure
     ELSE \E enforce_res \in BOOLEAN :
            IF ~enforce_res
            THEN /\ stage' = "SendAuthOk"
                 /\ other_failure' = TRUE
                 /\ UNCHANGED <<failed, failed_phase>>
            ELSE /\ stage' = "SendAuthOk"
                 /\ UNCHANGED <<failed, failed_phase, other_failure>>
  /\ result' = "Again"
  /\ UNCHANGED <<retry_connect, already_fallback, in_handshake, trx_stmt,
                 fetcher_result, handle, parent_event, on_error_, clientVars,
                 serverVars, connVars, pending, pending_arg, timer_armed,
                 timer_canceled, clock, thrown, logVars, abandoned,
                 ended_twice, on_error_log, client_replies, suspends,
                 restarts, greet_log>>

\* Stage::FetchUserAttrsDone
fetch_user_attrs_done ==
  /\ CanProcess
  /\ stage = "FetchUserAttrsDone"
  /\ IF fetcher_result # "ok"
     THEN /\ failed' = Some(ErrAccessDenied)
          /\ failed_phase' = stage
          /\ stage' = "Done"
          /\ UNCHANGED other_failure
     ELSE \E enforce_res \in BOOLEAN :
            IF ~enforce_res
            THEN /\ failed' = Some(ErrAccessDenied)
                 /\ failed_phase' = stage
                 /\ stage' = "Done"
                 /\ other_failure' = TRUE
            ELSE /\ stage' = "SendAuthOk"
                 /\ UNCHANGED <<failed, failed_phase, other_failure>>
  /\ result' = "Again"
  /\ UNCHANGED <<retry_connect, already_fallback, in_handshake, trx_stmt,
                 fetcher_result, handle, parent_event, on_error_, clientVars,
                 serverVars, connVars, pending, pending_arg, timer_armed,
                 timer_canceled, clock, thrown, logVars, abandoned,
                 ended_twice, on_error_log, client_replies, suspends,
                 restarts, greet_log>>
\* send_auth_ok() without the in_handshake_ test
send_auth_ok_always ==
  /\ CanProcess
  /\ stage = "SendAuthOk"
  /\ \E send_res \in BOOLEAN :
       IF ~send_res
       THEN /\ result' = "Error"
            /\ other_failure' = TRUE
            /\ UNCHANGED <<stage, client_replies>>
       ELSE /\ stage' = "Done"
            /\ result' = "SendToClient"
            /\ client_replies' = client_replies + 1
            /\ UNCHANGED other_failure
  /\ UNCHANGED <<failed, retry_connect, already_fallback, in_handshake,
                 trx_stmt, fetcher_result, handle, parent_event, on_error_,
                 clientVars, serverVars, connVars, pending, pending_arg,
                 timer_armed, timer_canceled, clock, thrown, logVars,
                 abandoned, ended_twice, on_error_log, suspends, restarts,
                 failed_phase, greet_log>>


send_auth_ok ==
  /\ CanProcess
  /\ stage = "SendAuthOk"
  /\ IF ~in_handshake
     THEN /\ stage' = "Done"
          /\ result' = "Again"
          /\ UNCHANGED <<client_replies, other_failure>>
     ELSE \E send_res \in BOOLEAN :
            IF ~send_res
            THEN /\ result' = "Error"
                 /\ other_failure' = TRUE
                 /\ UNCHANGED <<stage, client_replies>>
            ELSE /\ stage' = "Done"
                 /\ result' = "SendToClient"
                 /\ client_replies' = client_replies + 1
                 /\ UNCHANGED other_failure
  /\ UNCHANGED <<failed, retry_connect, already_fallback, in_handshake,
                 trx_stmt, fetcher_result, handle, parent_event, on_error_,
                 clientVars, serverVars, connVars, pending, pending_arg,
                 timer_armed, timer_canceled, clock, thrown, logVars,
                 abandoned, ended_twice, on_error_log, suspends, restarts,
                 failed_phase, greet_log>>
\* case Stage::Done without the call of on_error_
done_no_report ==
  /\ CanProcess
  /\ stage = "Done"
  /\ ended_twice' = EndedTwice(handle, ended_twice, "connect")
  /\ is_authenticated' = IF failed # NullOpt THEN FALSE ELSE is_authenticated
  /\ server_seq_id' =
       IF server_protocol # "nullptr" THEN SeqIdReset ELSE server_seq_id
  /\ handle' = trace_span_end(handle, "connect", "kOk")
  /\ result' = "Done"
  /\ UNCHANGED <<stage, failed, retry_connect, already_fallback,
                 in_handshake, trx_stmt, fetcher_result, parent_event,
                 on_error_, clientVars, server_open, server_greeting,
                 server_username, server_attributes, server_schema,
                 server_multi, server_protocol, client_greeting_sent,
                 expected_server_mode, sysvars, some_state_changed,
                 trx_characteristics, pending, pending_arg, timer_armed,
                 timer_canceled, clock, thrown, logVars, abandoned,
                 on_error_log, client_replies, suspends, restarts,
                 failed_phase, greet_log, other_failure>>

\* case Stage::Done of process()
\* case Stage::Done without the reset of the server side sequence id
done_keeps_seq_id ==
  /\ CanProcess
  /\ stage = "Done"
  /\ ended_twice' = EndedTwice(handle, ended_twice, "connect")
  /\ IF failed # NullOpt
     THEN /\ on_error_log' = IF on_error_
                               THEN on_error(on_error_log, "Done", failed[1])
                               ELSE on_error_log
          /\ is_authenticated' = FALSE
     ELSE UNCHANGED <<on_error_log, is_authenticated>>
  /\ UNCHANGED server_seq_id
  /\ handle' = trace_span_end(handle, "connect", "kOk")
  /\ result' = "Done"
  /\ UNCHANGED <<stage, failed, retry_connect, already_fallback,
                 in_handshake, trx_stmt, fetcher_result, parent_event,
                 on_error_, clientVars, server_open, server_greeting,
                 server_username, server_attributes, server_schema,
                 server_multi, server_protocol, client_greeting_sent,
                 expected_server_mode, sysvars, some_state_changed,
                 trx_characteristics, pending, pending_arg, timer_armed,
                 timer_canceled, clock, thrown, logVars, abandoned,
                 client_replies, suspends, restarts, failed_phase, greet_log,
                 other_failure>>

\* case Stage::Done
done ==
  /\ CanProcess
  /\ stage = "Done"
  /\ ended_twice' = EndedTwice(handle, ended_twice, "connect")
  /\ IF failed # NullOpt
     THEN /\ on_error_log' = IF on_error_
                               THEN on_error(on_error_log, "Done", failed[1])
                               ELSE on_error_log
          /\ is_authenticated' = FALSE
     ELSE UNCHANGED <<on_error_log, is_authenticated>>
  /\ server_seq_id' =
       IF server_protocol # "nullptr" THEN SeqIdReset ELSE server_seq_id
  /\ handle' = trace_span_end(handle, "connect", "kOk")
  /\ result' = "Done"
  /\ UNCHANGED <<stage, failed, retry_connect, already_fallback,
                 in_handshake, trx_stmt, fetcher_result, parent_event,
                 on_error_, clientVars, server_open, server_greeting,
                 server_username, server_attributes, server_schema,
                 server_multi, server_protocol, client_greeting_sent,
                 expected_server_mode, sysvars, some_state_changed,
                 trx_characteristics, pending, pending_arg, timer_armed,
                 timer_canceled, clock, thrown, logVars, abandoned,
                 client_replies, suspends, restarts, failed_phase, greet_log,
                 other_failure>>

\* the handler authenticated() gave connect_timer().async_wait(): called
\* with an error code (the wait was canceled) it returns and nothing resumes
\* the machine; called without one, a retry interval after the wait began,
\* connection()->resume() calls process() again
connect_timer ==
  /\ timer_armed
  /\ ~timer_canceled
  /\ \E ec \in {"success", "operation_canceled"} :
       IF ec # "success"
       THEN /\ timer_canceled' = TRUE
            /\ UNCHANGED <<timer_armed, clock>>
       ELSE /\ timer_armed' = FALSE
            /\ clock' = clock + 1
            /\ UNCHANGED timer_canceled
  /\ UNCHANGED <<lcVars, clientVars, serverVars, connVars, pending,
                 pending_arg, result, thrown, logVars, obsVars>>

(***************************************************************************)
(* The sub-processors the machine pushes.  Each runs to its end and pops   *)
(* itself; the callbacks and handlers it was given are the machine's.      *)
(***************************************************************************)
connect_error_is_transient(err) == err.code = ErrConCount.code

\* on_error_(err) in a callback the machine gave a sub-processor: calling
\* an empty std::function throws std::bad_function_call
call_on_error(from, err) ==
  IF on_error_
  THEN /\ on_error_log' = on_error(on_error_log, from, err)
       /\ UNCHANGED thrown
  ELSE /\ thrown' = TRUE
       /\ UNCHANGED on_error_log

\* the error callback connect() gives the ConnectProcessor
ConnectProcessor_on_error(err) == call_on_error("ConnectProcessor", err)

\* the error callback connected() gives the ChangeUserSender
ChangeUserSender_on_error(err) == call_on_error("ChangeUserSender", err)

\* the error callback connected() gives the ServerGreetor: retry or report
ServerGreetor_retry(err, has_password, has_greeting, now) ==
  /\ connect_error_is_transient(err)
  /\ (has_password \/ ~has_greeting)
  /\ now < RetryWindow

\* steady_clock::now() - started_ is read by the callback only if the
\* two conditions before it hold (line 389-396)
ReadsClock(err, has_password, has_greeting) ==
  connect_error_is_transient(err) /\ (has_password \/ ~has_greeting)

\* the ServerGreetor callback reporting the error also when it retries
ServerGreetor_on_error_reports(err, has_password, has_greeting, now) ==
  /\ clock' = IF ReadsClock(err, has_password, has_greeting)
              THEN now ELSE clock
  /\ retry_connect' =
       (retry_connect \/
        ServerGreetor_retry(err, has_password, has_greeting, now))
  /\ call_on_error("ServerGreetor", err)

\* the callback as connected() has it: report only when it does not retry;
\* now is what steady_clock::now() - started_ has become when it is called
ServerGreetor_on_error(err, has_password, has_greeting, now) ==
  /\ clock' = IF ReadsClock(err, has_password, has_greeting)
              THEN now ELSE clock
  /\ IF ServerGreetor_retry(err, has_password, has_greeting, now)
     THEN /\ retry_connect' = TRUE
          /\ UNCHANGED <<on_error_log, thrown>>
     ELSE /\ call_on_error("ServerGreetor", err)
          /\ UNCHANGED retry_connect

\* the record of the runs, extended by sub-processor p when it is one of
\* the recorded ones: what it was given and what the server answered
Log(s, p, arg, res) ==
  IF p \in observe THEN Append(s, [p |-> p, arg |-> arg, res |-> res]) ELSE s

\* creates a fresh connection or takes one from the pool, or fails
ConnectProcessor ==
  /\ pending = "ConnectProcessor"
  /\ pending' = "none"
  /\ pending_arg' = <<>>
  /\ \/ /\ server_open' = TRUE
        /\ server_greeting' = FALSE
        /\ server_username' = ""
        /\ server_attributes' = ""
        /\ server_schema' = ""
        /\ server_multi' = FALSE
        /\ server_seq_id' = 0
        /\ server_protocol' = "set"
        /\ sent' = Log(sent, "ConnectProcessor", <<"fresh">>, OkResult)
        /\ UNCHANGED <<on_error_log, other_failure, thrown>>
     \/ /\ server_open' = TRUE
        /\ server_greeting' = TRUE
        /\ server_username' \in ServerUsernames
        /\ server_attributes' \in ServerAttributes
        /\ server_schema' \in ServerSchemas
        /\ server_multi' \in BOOLEAN
        /\ server_seq_id' = 0
        /\ server_protocol' = "set"
        /\ sent' = Log(sent, "ConnectProcessor", <<"pooled">>, OkResult)
        /\ UNCHANGED <<on_error_log, other_failure, thrown>>
     \/ /\ \E err \in GreetingErrors :
             /\ ConnectProcessor_on_error(err)
             /\ sent' = Log(sent, "ConnectProcessor", <<>>, ErrorResult(err))
        /\ other_failure' = TRUE
        /\ UNCHANGED <<server_open, server_greeting, server_username,
                       server_attributes, server_schema, server_multi,
                       server_seq_id, server_protocol>>
  /\ UNCHANGED <<lcVars, clientVars, connVars, result, timer_armed,
                 timer_canceled, clock, observe, abandoned, ended_twice,
                 client_replies, suspends, restarts, failed_phase, greet_log>>

\* the full handshake with a fresh server connection; whether the client's
\* password is known and whether the server's greeting arrived are what
\* the handshake left behind when it failed; time has passed since the
\* clock was last read, up to the retry window and beyond (all times from
\* the end of the window on are alike)
ServerGreetor ==
  /\ pending = "ServerGreetor"
  /\ pending' = "none"
  /\ pending_arg' = <<>>
  /\ server_seq_id' = 1
  /\ \/ /\ is_authenticated' = TRUE
        /\ server_greeting' = TRUE
        /\ server_username' = client_username
        /\ server_attributes' = client_attributes
        /\ server_schema' = client_schema
        /\ server_multi' = client_multi
        /\ greet_log' = Append(greet_log, [ok |-> TRUE, retry |-> FALSE])
        /\ sent' = Log(sent, "ServerGreetor", <<>>, OkResult)
        /\ UNCHANGED <<server_open, retry_connect, on_error_log, thrown,
                       clock>>
     \/ \E err \in GreetingErrors, has_password \in BOOLEAN,
           has_greeting \in BOOLEAN, now \in clock..RetryWindow :
          /\ is_authenticated' = FALSE
          /\ server_open' = FALSE
          /\ server_greeting' = has_greeting
          /\ ServerGreetor_on_error(err, has_password, has_greeting, now)
          /\ sent' = Log(sent, "ServerGreetor", <<>>, ErrorResult(err))
          /\ greet_log' =
               Append(greet_log,
                      [ok |-> FALSE,
                       retry |-> /\ err = ErrConCount
                                 /\ now < RetryWindow
                                 /\ (has_password \/ ~has_greeting)])
          /\ UNCHANGED <<server_username, server_attributes, server_schema,
                         server_multi>>
  /\ UNCHANGED <<stage, failed, already_fallback, in_handshake, trx_stmt,
                 fetcher_result, handle, parent_event, on_error_, clientVars,
                 server_protocol, client_greeting_sent, expected_server_mode,
                 sysvars, some_state_changed, trx_characteristics, result,
                 timer_armed, timer_canceled, observe, abandoned,
                 ended_twice, client_replies, suspends, restarts,
                 failed_phase, other_failure>>

\* COM_CHANGE_USER on a connection taken from the pool
ChangeUserSender ==
  /\ pending = "ChangeUserSender"
  /\ pending' = "none"
  /\ pending_arg' = <<>>
  /\ server_seq_id' = 1
  /\ \/ /\ is_authenticated' = TRUE
        /\ server_username' = client_username
        /\ server_attributes' = client_attributes
        /\ server_schema' = client_schema
        /\ sent' = Log(sent, "ChangeUserSender", <<>>, OkResult)
        /\ UNCHANGED <<on_error_log, other_failure, thrown>>
     \/ /\ is_authenticated' = FALSE
        /\ ChangeUserSender_on_error(ErrServerDenied)
        /\ sent' = Log(sent, "ChangeUserSender", <<>>,
                       ErrorResult(ErrServerDenied))
        /\ other_failure' = TRUE
        /\ UNCHANGED <<server_username, server_attributes, server_schema>>
  /\ UNCHANGED <<lcVars, clientVars, server_open, server_greeting,
                 server_multi, server_protocol, client_greeting_sent,
                 expected_server_mode, sysvars, some_state_changed,
                 trx_characteristics, result, timer_armed, timer_canceled,
                 clock, observe, abandoned, ended_twice, client_replies,
                 suspends, restarts, failed_phase, greet_log>>

\* COM_RESET_CONNECTION
ResetConnectionSender ==
  /\ pending = "ResetConnectionSender"
  /\ pending' = "none"
  /\ pending_arg' = <<>>
  /\ sent' = Log(sent, "ResetConnectionSender", pending_arg, OkResult)
  /\ server_seq_id' = 1
  /\ UNCHANGED <<lcVars, clientVars, server_open, server_greeting,
                 server_username, server_attributes, server_schema,
                 server_multi, server_protocol, connVars, result,
                 timer_armed, timer_canceled, clock, thrown, observe,
                 obsVars>>

\* the QuerySender of set_vars() and of set_trx_characteristics()
QuerySender_FailedQueryHandler ==
  /\ pending = "QuerySender_FailedQueryHandler"
  /\ pending' = "none"
  /\ pending_arg' = <<>>
  /\ server_seq_id' = 1
  /\ \E stream \in FailedQueryStreams :
       /\ failed' = FailedQueryHandler(failed, stream)
       /\ sent' = Log(sent, "QuerySender_FailedQueryHandler", pending_arg,
                      stream)
       /\ failed_phase' = IF stream.kind = "error" THEN stage
                          ELSE failed_phase
       /\ other_failure' = (other_failure \/ stream.kind = "error")
  /\ UNCHANGED <<stage, retry_connect, already_fallback, in_handshake,
                 trx_stmt, fetcher_result, handle, parent_event, on_error_,
                 clientVars, server_open, server_greeting, server_username,
                 server_attributes, server_schema, server_multi,
                 server_protocol, connVars, result, timer_armed,
                 timer_canceled, clock, thrown, observe, abandoned,
                 ended_twice, on_error_log, client_replies, suspends,
                 restarts, greet_log>>

\* the QuerySender of wait_gtid_executed()
QuerySender_IsTrueHandler ==
  /\ pending = "QuerySender_IsTrueHandler"
  /\ pending' = "none"
  /\ pending_arg' = <<>>
  /\ server_seq_id' = 1
  /\ \E stream \in IsTrueStreams :
       /\ failed' = IsTrueHandler(failed, stream, ErrWaitTimedOut)
       /\ sent' = Log(sent, "QuerySender_IsTrueHandler", pending_arg, stream)
       /\ failed_phase' = IF failed' # failed THEN stage ELSE failed_phase
       /\ other_failure' =
            (other_failure \/ stream # ResultSet(1, << <<Some("1")>> >>))
  /\ UNCHANGED <<stage, retry_connect, already_fallback, in_handshake,
                 trx_stmt, fetcher_result, handle, parent_event, on_error_,
                 clientVars, server_open, server_greeting, server_username,
                 server_attributes, server_schema, server_multi,
                 server_protocol, connVars, result, timer_armed,
                 timer_canceled, clock, thrown, observe, abandoned,
                 ended_twice, on_error_log, client_replies, suspends,
                 restarts, greet_log>>

\* the QuerySender of fetch_sys_vars()
QuerySender_SelectSessionVariablesHandler ==
  /\ pending = "QuerySender_SelectSessionVariablesHandler"
  /\ pending' = "none"
  /\ pending_arg' = <<>>
  /\ server_seq_id' = 1
  /\ \E stream \in SysVarStreams :
       LET after == SelectSessionVariablesHandler(sysvars,
                                                  some_state_changed, stream)
       IN  /\ sysvars' = after.sysvars
           /\ some_state_changed' = after.some_state_changed
           /\ sent' = Log(sent, "QuerySender_SelectSessionVariablesHandler",
                          pending_arg, stream)
  /\ UNCHANGED <<lcVars, clientVars, server_open, server_greeting,
                 server_username, server_attributes, server_schema,
                 server_multi, server_protocol, is_authenticated,
                 client_greeting_sent, expected_server_mode,
                 trx_characteristics, result, timer_armed, timer_canceled,
                 clock, thrown, observe, obsVars>>

\* COM_SET_OPTION: the server side gets the setting it was sent
SetOptionSender ==
  /\ pending = "SetOptionSender"
  /\ pending' = "none"
  /\ pending_arg' = <<>>
  /\ sent' = Log(sent, "SetOptionSender", pending_arg, OkResult)
  /\ server_seq_id' = 1
  /\ server_multi' = (pending_arg = <<"MYSQL_OPTION_MULTI_STATEMENTS_ON">>)
  /\ UNCHANGED <<lcVars, clientVars, server_open, server_greeting,
                 server_username, server_attributes, server_schema,
                 server_protocol, connVars, result, timer_armed,
                 timer_canceled, clock, thrown, observe, obsVars>>

\* COM_INIT_DB: the server side gets the schema it was sent
InitSchemaSender ==
  /\ pending = "InitSchemaSender"
  /\ pending' = "none"
  /\ pending_arg' = <<>>
  /\ sent' = Log(sent, "InitSchemaSender", pending_arg, OkResult)
  /\ server_seq_id' = 1
  /\ server_schema' = pending_arg[1]
  /\ UNCHANGED <<lcVars, clientVars, server_open, server_greeting,
                 server_username, server_attributes, server_multi,
                 server_protocol, connVars, result, timer_armed,
                 timer_canceled, clock, thrown, observe, obsVars>>

\* COM_QUIT: closes the server connection
QuitSender ==
  /\ pending = "QuitSender"
  /\ pending' = "none"
  /\ pending_arg' = <<>>
  /\ sent' = Log(sent, "QuitSender", pending_arg, OkResult)
  /\ server_open' = FALSE
  /\ UNCHANGED <<lcVars, clientVars, server_greeting, server_username,
                 server_attributes, server_schema, server_multi,
                 server_seq_id, server_protocol, connVars, result,
                 timer_armed, timer_canceled, clock, thrown, observe,
                 obsVars>>

\* RouterRequireFetcher::push_processor(): fills the fetcher result
RouterRequireFetcher ==
  /\ pending = "RouterRequireFetcher"
  /\ pending' = "none"
  /\ pending_arg' = <<>>
  /\ server_seq_id' = 1
  /\ \E res \in {"ok", "error"} :
       /\ fetcher_result' = res
       /\ sent' = Log(sent, "RouterRequireFetcher", <<>>,
                      IF res = "ok" THEN OkResult
                      ELSE ErrorResult(ErrAccessDenied))
       /\ other_failure' = (other_failure \/ res = "error")
  /\ UNCHANGED <<stage, failed, retry_connect, already_fallback,
                 in_handshake, trx_stmt, handle, parent_event, on_error_,
                 clientVars, server_open, server_greeting, server_username,
                 server_attributes, server_schema, server_multi,
                 server_protocol, connVars, result, timer_armed,
                 timer_canceled, clock, thrown, observe, abandoned,
                 ended_twice, on_error_log, client_replies, suspends,
                 restarts, failed_phase, greet_log>>

Next ==
  \/ connect
  \/ connected
  \/ authenticated
  \/ set_vars
  \/ set_vars_done
  \/ set_server_option
  \/ set_server_option_done
  \/ fetch_sys_vars
  \/ fetch_sys_vars_done
  \/ set_schema
  \/ set_schema_done
  \/ wait_gtid_executed
  \/ wait_gtid_executed_done
  \/ pool_or_close
  \/ fallback_to_write
  \/ set_trx_characteristics
  \/ set_trx_characteristics_done
  \/ fetch_user_attrs
  \/ fetch_user_attrs_done
  \/ send_auth_ok
  \/ done
  \/ connect_timer
  \/ ConnectProcessor
  \/ ServerGreetor
  \/ ChangeUserSender
  \/ ResetConnectionSender
  \/ QuerySender_FailedQueryHandler
  \/ QuerySender_IsTrueHandler
  \/ QuerySender_SelectSessionVariablesHandler
  \/ SetOptionSender
  \/ InitSchemaSender
  \/ QuitSender
  \/ RouterRequireFetcher

Spec == Init /\ [][Next]_vars

\* The runs the scheduler completes, with an error callback to report to
\* and with tracing switched off (no parent event; the trace handles are
\* written and never read, so the runs differ in nothing else).  The
\* connection calls process() again after Again, runs the processor on top
\* of the stack to its end, and the retry timer expires: whichever step is
\* due is taken.
FairInit == Init /\ parent_event = "nullptr" /\ on_error_

FairSpec == FairInit /\ [][Next]_vars /\ WF_vars(Next)

\* The same runs with the reset of a reused connection recorded.
ReuseInit ==
  Constructed /\ observe = {"ResetConnectionSender"} /\ parent_event = "nullptr"

ReuseSpec == ReuseInit /\ [][Next]_vars

\* a session that has every phase to go through: variables to restore, a
\* schema, connection sharing, and transaction characteristics of two
\* statements
BusySession ==
  /\ client_schema = "shop"
  /\ client_multi = TRUE
  /\ connection_sharing = TRUE
  /\ greeting_from_router = FALSE
  /\ sysvars = {<<"session_track_gtids", NullOpt>>,
                <<"character_set_client", Some("utf8mb4")>>,
                <<"collation_connection", Some("utf8mb4_bin")>>}
  /\ trx_characteristics = Some(<<"a", ";", " ", "b">>)

\* The runs the scheduler completes of such a session, with and without
\* an error callback.
BusyInit == Init /\ parent_event = "nullptr" /\ BusySession

BusySpec == BusyInit /\ [][Next]_vars /\ WF_vars(Next)

\* The runs of such a session with the GTID-wait queries recorded.
WaitsInit ==
  /\ Constructed
  /\ BusySession
  /\ parent_event = "nullptr"
  /\ observe = {"QuerySender_IsTrueHandler"}

WaitsSpec == WaitsInit /\ [][Next]_vars

\* A session in its handshake on a fresh connection that was greeted,
\* tracing off, no failure so far: what the states of Spec in which it
\* enters FetchSysVars and the stages after it have in common.
Greeted ==
  /\ failed = NullOpt
  /\ retry_connect = FALSE
  /\ already_fallback = FALSE
  /\ in_handshake = TRUE
  /\ fetcher_result = "unset"
  /\ handle = [p \in Phases |-> "nullptr"]
  /\ parent_event = "nullptr"
  /\ on_error_ \in BOOLEAN
  /\ abandoned = {}
  /\ ended_twice = {}
  /\ server_open = TRUE
  /\ is_authenticated = TRUE
  /\ server_greeting = TRUE
  /\ client_greeting_sent = FALSE
  /\ client_username = ClientUsername
  /\ client_attributes = ClientAttributes
  /\ client_multi = FALSE
  /\ server_username = ClientUsername
  /\ server_attributes = ClientAttributes
  /\ server_multi = FALSE
  /\ some_state_changed = FALSE
  /\ server_seq_id = 1
  /\ server_protocol = "set"
  /\ greeting_from_router = FALSE
  /\ pending = "none"
  /\ pending_arg = <<>>
  /\ result = "Again"
  /\ timer_armed = FALSE
  /\ timer_canceled = FALSE
  /\ clock = 0
  /\ thrown = FALSE
  /\ on_error_log = <<>>
  /\ client_replies = 0
  /\ suspends = 0
  /\ restarts = 0
  /\ failed_phase = "none"
  /\ greet_log = <<[ok |-> TRUE, retry |-> FALSE]>>
  /\ other_failure = FALSE
  /\ sent = <<>>

\* The GTID wait on its own, the query and its result recorded: the runs
\* from the states in which the greeted session enters WaitGtidExecuted, up
\* to the stage that follows WaitGtidExecutedDone.
GtidWaitInit ==
  /\ Greeted
  /\ stage = "WaitGtidExecuted"
  /\ client_schema = ""
  /\ server_schema = ""
  /\ sysvars = {<<"statement_id", Some("7")>>}
  /\ connection_sharing = FALSE
  /\ trx_stmt = <<>>
  /\ trx_characteristics = NullOpt
  /\ expected_server_mode \in ServerModes
  /\ observe = {"QuerySender_IsTrueHandler"}

GtidWaitNext ==
  \/ wait_gtid_executed
  \/ QuerySender_IsTrueHandler
  \/ wait_gtid_executed_done

GtidWaitSpec == GtidWaitInit /\ [][GtidWaitNext]_vars

\* The transaction characteristics on their own, the statements sent
\* recorded: the runs from the states in which the greeted session enters
\* SetTrxCharacteristics, for every statement characteristics() may hold up
\* to a length, up to FetchUserAttrs.
TrxInit ==
  /\ Greeted
  /\ stage = "SetTrxCharacteristics"
  /\ client_schema = ""
  /\ server_schema = ""
  /\ sysvars = {<<"statement_id", Some("7")>>}
  /\ connection_sharing = FALSE
  /\ trx_characteristics \in {NullOpt} \cup {Some(s) : s \in TrxInputs}
  /\ trx_stmt = IF trx_characteristics = NullOpt THEN <<>>
                ELSE trx_characteristics[1]
  /\ expected_server_mode = "ReadWrite"
  /\ observe = {"QuerySender_FailedQueryHandler"}

TrxNext ==
  \/ set_trx_characteristics
  \/ QuerySender_FailedQueryHandler
  \/ set_trx_characteristics_done

TrxSpec == TrxInit /\ [][TrxNext]_vars

\* The capture of the session variables on its own, the query and its
\* result recorded: the runs from the states in which the greeted session
\* enters FetchSysVars, up to SetSchema.
SelectVarsInit ==
  /\ Greeted
  /\ stage = "FetchSysVars"
  /\ client_schema \in ClientSchemas
  /\ server_schema = client_schema
  /\ sysvars \in InitStores
  /\ connection_sharing \in BOOLEAN
  /\ trx_stmt = <<>>
  /\ trx_characteristics = NullOpt
  /\ expected_server_mode \in ServerModes
  /\ observe = {"QuerySender_SelectSessionVariablesHandler"}

SelectVarsNext ==
  \/ fetch_sys_vars
  \/ QuerySender_SelectSessionVariablesHandler
  \/ fetch_sys_vars_done

SelectVarsSpec == SelectVarsInit /\ [][SelectVarsNext]_vars

(***************************************************************************)
(* Properties.                                                             *)
(***************************************************************************)
NormalResults == {"none", "Again", "Suspend", "SendToClient", "Done"}

\* the run ended and left the session without a usable server connection
RunFailed == failed # NullOpt \/ ~server_open \/ ~is_authenticated

\* C1: the fallback restart (FallbackToWrite going back to Connect) is taken
\* at most once in a run: it is taken only while already_fallback is unset
\* and sets it, and with already_fallback set the guard of FallbackToWrite
\* refuses the restart whatever the expected target is.
C1_FallbackAtMostOnce ==
  /\ \A mode \in ServerModes : fallback_refused(TRUE, mode)
  /\ [][ /\ restarts' <= 1
         /\ (stage = "FallbackToWrite" /\ stage' = "Connect")
              => (~already_fallback /\ already_fallback')
         /\ (stage = "FallbackToWrite" /\ stage' # "Connect")
              => (stage' \in {"FallbackToWrite", "Done"}
                  /\ restarts' = restarts) ]_vars

\* a failure came back after the one restart and the run ended without
\* another one
C1_Witness ==
  restarts = 1 /\ already_fallback /\ failed # NullOpt /\ result = "Done"

\* C2: over a whole run process() returns SendToClient at most once, and
\* only when the machine is in the initial handshake.
C2_AtMostOneReply ==
  /\ client_replies <= 1
  /\ client_replies = 1 => in_handshake
  /\ result = "SendToClient" => (in_handshake /\ client_replies = 1)

\* a run with a connect retry and a fallback restart that sent its one OK
C2_Witness ==
  client_replies = 1 /\ suspends >= 1 /\ restarts = 1 /\ result = "Done"

\* C3 as claimed: a run that ends in a failure invoked the callback the
\* caller supplied exactly once, and in the Done stage.
C3_ErrorReportedOnceInDone ==
  (on_error_ /\ result = "Done" /\ RunFailed)
    => (Len(on_error_log) = 1 /\ on_error_log[1].from = "Done")

\* C3 as the code has it: a run that ends in a failure invoked the
\* callback the caller supplied exactly once; from the Done stage with the
\* recorded failure when the failure state is set, and otherwise from the
\* error callback given to the ConnectProcessor, the ChangeUserSender or the
\* ServerGreetor.  An empty callback is never invoked: the Done stage
\* skips it, and a run that ends in a failure has its failure state set.
C3_ErrorReportedOnce ==
  /\ (on_error_ /\ result = "Done" /\ RunFailed)
       => /\ Len(on_error_log) = 1
          /\ failed # NullOpt
               => on_error_log[1] = [from |-> "Done", err |-> failed[1]]
          /\ failed = NullOpt
               => on_error_log[1].from \in
                    {"ConnectProcessor", "ChangeUserSender", "ServerGreetor"}
  /\ ~on_error_
       => /\ on_error_log = <<>>
          /\ (result = "Done" /\ RunFailed) => failed # NullOpt

\* the handshake failed for good: reported by the callback, not by Done
C3_Witness ==
  /\ result = "Done"
  /\ failed = NullOpt
  /\ Len(on_error_log) = 1
  /\ on_error_log[1].from = "ServerGreetor"

TableEdges ==
  { <<"Connect", "Connected">>, <<"Connect", "Done">>,
    <<"Connected", "Authenticated">>,
    <<"Authenticated", "SetVars">>, <<"Authenticated", "Connect">>,
    <<"Authenticated", "Done">>,
    <<"SetVars", "SetVarsDone">>, <<"SetVars", "SetServerOption">>,
    <<"SetVarsDone", "SetServerOption">>,
    <<"SetServerOption", "SetServerOptionDone">>,
    <<"SetServerOption", "FetchSysVars">>, <<"SetServerOption", "Done">>,
    <<"SetServerOptionDone", "FetchSysVars">>,
    <<"FetchSysVars", "FetchSysVarsDone">>, <<"FetchSysVars", "SetSchema">>,
    <<"FetchSysVarsDone", "SetSchema">>,
    <<"SetSchema", "SetSchemaDone">>, <<"SetSchema", "WaitGtidExecuted">>,
    <<"SetSchemaDone", "WaitGtidExecuted">>, <<"SetSchemaDone", "Done">>,
    <<"WaitGtidExecuted", "WaitGtidExecutedDone">>,
    <<"WaitGtidExecuted", "SetTrxCharacteristics">>,
    <<"WaitGtidExecutedDone", "SetTrxCharacteristics">>,
    <<"WaitGtidExecutedDone", "PoolOrClose">>,
    <<"SetTrxCharacteristics", "SetTrxCharacteristicsDone">>,
    <<"SetTrxCharacteristics", "FetchUserAttrs">>,
    <<"SetTrxCharacteristicsDone", "SetTrxCharacteristics">>,
    <<"SetTrxCharacteristicsDone", "FetchUserAttrs">>,
    <<"FetchUserAttrs", "FetchUserAttrsDone">>,
    <<"FetchUserAttrs", "SendAuthOk">>,
    <<"FetchUserAttrsDone", "SendAuthOk">>, <<"FetchUserAttrsDone", "Done">>,
    <<"SendAuthOk", "Done">>,
    <<"PoolOrClose", "FallbackToWrite">>,
    <<"FallbackToWrite", "Connect">>, <<"FallbackToWrite", "Done">> }

\* the failure edges the code has and the table does not list
UnlistedEdges ==
  { <<"Connected", "Done">>, <<"SetServerOptionDone", "Done">> }

\* C5 as claimed: every stage change is an edge of the table.
C5_OnlyTableEdges ==
  [][stage' # stage => <<stage, stage'>> \in TableEdges]_vars

\* C5 as the code has it: every stage change is an edge of the table, or
\* Connected -> Done (the connect failed), or SetServerOptionDone -> Done
\* (a failure is recorded).
C5_TableEdgesAndFailureExits ==
  [][stage' # stage
       => <<stage, stage'>> \in TableEdges \cup UnlistedEdges]_vars

\* the machine left Connected for Done because the connect failed
C5_Witness ==
  /\ stage = "Done"
  /\ result = "Again"
  /\ ~server_open
  /\ Len(on_error_log) = 1
  /\ on_error_log[1].from = "ConnectProcessor"

\* C6: a Done stage that branches on failed() finds only a failure its own
\* phase recorded.
C6_FailureCheckedAtNextBoundary ==
  (/\ CanProcess
   /\ failed # NullOpt
   /\ stage \in {"SetServerOptionDone", "SetSchemaDone",
                 "WaitGtidExecutedDone"})
    => failed_phase = stage

\* C7: when process() returns Done no trace event is open, none was left
\* open without a handle, and none was ended twice.
C7_SpansClosedOnce ==
  /\ abandoned = {}
  /\ ended_twice = {}
  /\ result = "Done" => \A p \in Phases : handle[p] # "open"

\* C8: PoolOrClose is entered only from WaitGtidExecutedDone with failed()
\* set and FallbackToWrite only from PoolOrClose; the restart is taken only
\* with a read-only expected target and leaves failed() empty, the expected
\* target read-write and already_fallback set.
C8_FallbackOnlyFromGtidWait ==
  [][ /\ (stage' = "PoolOrClose" /\ stage # "PoolOrClose")
           => (stage = "WaitGtidExecutedDone" /\ failed # NullOpt)
      /\ (stage' = "FallbackToWrite" /\ stage # "FallbackToWrite")
           => (stage = "PoolOrClose" /\ failed # NullOpt)
      /\ (stage = "FallbackToWrite" /\ stage' = "Connect")
           => /\ expected_server_mode = "ReadOnly"
              /\ expected_server_mode' = "ReadWrite"
              /\ failed' = NullOpt
              /\ already_fallback' ]_vars

\* the state right after the restart
C8_Witness ==
  /\ stage = "Connect"
  /\ restarts = 1
  /\ result = "Again"
  /\ failed = NullOpt
  /\ expected_server_mode = "ReadWrite"
  /\ already_fallback

\* C9: failed(), once set, is emptied by the fallback restart alone.
C9_FailureSticks ==
  [][(failed # NullOpt /\ failed' = NullOpt)
       => (stage = "FallbackToWrite" /\ stage' = "Connect")]_vars

\* the failure of the SET statement is still recorded when the machine
\* is about to send the OK
C9_Witness ==
  /\ stage = "SendAuthOk"
  /\ CanProcess
  /\ failed = Some(ErrQueryFailed)
  /\ failed_phase = "SetVarsDone"

\* the ServerGreetor ran three times: two retryable failures, then success
TwoRetriesThenOk ==
  /\ Len(greet_log) = 3
  /\ greet_log[1] = [ok |-> FALSE, retry |-> TRUE]
  /\ greet_log[2] = [ok |-> FALSE, retry |-> TRUE]
  /\ greet_log[3] = [ok |-> TRUE, retry |-> FALSE]

\* what C10 says of a state
TwoRetriesThenSuccess ==
  /\ result = "Suspend" => stage = "Connect"
  /\ (TwoRetriesThenOk /\ restarts = 0)
       => /\ suspends = 2
          /\ ~other_failure
               => /\ on_error_log = <<>>
                  /\ failed = NullOpt
                  /\ is_authenticated /\ server_open
                  /\ stage \notin {"PoolOrClose", "FallbackToWrite"}
                  /\ (result = "Done" /\ in_handshake) => client_replies = 1

\* C10: process() returns Suspend only with the stage back at Connect; after
\* two retryable greeting failures and a success it has returned Suspend
\* twice, and as long as nothing else fails no error is reported or
\* recorded, the session is authenticated on an open server connection and
\* the run goes on to return Done, with the OK sent if it is an initial
\* handshake.
C10_TwoRetriesThenSuccess ==
  /\ []TwoRetriesThenSuccess
  /\ []((TwoRetriesThenOk /\ restarts = 0)
          => <>(other_failure \/ (result = "Done" /\ failed = NullOpt)))

\* such a run, ended
C10_Witness ==
  /\ TwoRetriesThenOk
  /\ restarts = 0
  /\ ~other_failure
  /\ suspends = 2
  /\ result = "Done"
  /\ failed = NullOpt

\* the authentication did not succeed
AuthFailed == ~is_authenticated \/ ~server_open

\* C11: process() returns Suspend only from the Authenticated stage after a
\* failed authentication with retry_connect set, and that step resets
\* retry_connect, sets the stage to Connect and arms the retry timer; a
\* failed authentication without retry_connect goes to Done; a step that
\* pushes a sub-processor returns Again.
C11_SuspendOnlyForRetry ==
  [][ /\ (CanProcess /\ result' = "Suspend")
           => /\ stage = "Authenticated" /\ AuthFailed /\ retry_connect
              /\ ~retry_connect'
              /\ stage' = "Connect"
              /\ timer_armed'
      /\ (CanProcess /\ stage = "Authenticated" /\ AuthFailed)
           => IF retry_connect
              THEN result' = "Suspend"
              ELSE stage' = "Done" /\ result' = "Again"
      /\ (pending = "none" /\ pending' # "none")
           => (CanProcess /\ result' = "Again") ]_vars

\* the machine is suspended, waiting for the retry timer
C11_Witness ==
  /\ result = "Suspend"
  /\ timer_armed
  /\ stage = "Connect"
  /\ ~retry_connect
  /\ AuthFailed
  /\ suspends = 1

(***************************************************************************)
(* Reuse of a pooled connection.                                           *)
(***************************************************************************)
\* every attempt of the run so far, the current one included, reused a
\* pooled connection of the same user and reset it: the first attempt, one
\* more for each retry after the timer and for each fallback restart
ReusedByReset == Len(sent) = suspends + restarts + 1

\* neither a session variable to restore nor a transaction characteristic
NothingToRestore ==
  /\ SetVarsStmt(sysvars, connection_sharing /\ greeting_from_router) = <<>>
  /\ trx_stmt = <<>>

\* the sub-processors that send SET, a transaction characteristic (both a
\* QuerySender with a FailedQueryHandler) or the schema switch
StatementSenders == {"QuerySender_FailedQueryHandler", "InitSchemaSender"}

\* C12 as stated: once a pooled connection of the same user, attributes and
\* schema was reset, the run pushes no SET, no schema switch and no
\* transaction characteristic, and the client gets no reply.
C12_ResetOnly ==
  [][ (ReusedByReset /\ client_schema = server_schema)
        => (pending' \notin StatementSenders /\ client_replies' = 0) ]_vars

\* C12 (amended): once a pooled connection of the same user, attributes and
\* schema was reset, and the session has no variable to restore and no
\* transaction characteristic left, the run pushes no SET, no schema switch
\* and no transaction characteristic, and the client gets no reply.
C12_ResetOnlyWhenNothingToRestore ==
  [][ (ReusedByReset /\ client_schema = server_schema /\ NothingToRestore)
        => (pending' \notin StatementSenders /\ client_replies' = 0) ]_vars

C12_Witness ==
  /\ stage = "Done" /\ result = "Done"
  /\ ReusedByReset /\ restarts = 0
  /\ client_schema = server_schema /\ NothingToRestore
  /\ failed = NullOpt /\ client_replies = 0

(***************************************************************************)
(* The GTID wait.                                                          *)
(***************************************************************************)
\* the result stream the QuerySender recorded last delivered
LastResult == sent[Len(sent)].res

\* a result of one column and one row whose value is not NULL and not "1"
IsSingleFalseRow(stream) ==
  /\ stream.kind = "resultset"
  /\ stream.columns = 1
  /\ Len(stream.rows) = 1
  /\ stream.rows[1][1] \notin {NullOpt, Some("1")}

\* C13: the wait is pushed only for a read-only session; with a lag of zero
\* the query is SELECT GTID_SUBSET and with any other lag the
\* WAIT_FOR_EXECUTED_GTID_SET form; a row whose value is not "1" sets
\* failed() to "wait_for_my_writes timed out", and WaitGtidExecutedDone
\* with a failure goes to PoolOrClose, without one to SetTrxCharacteristics.
C13_GtidSubsetThenPoolOrClose ==
  /\ \A g \in GtidSets, lag \in 0..1 :
       WaitGtidQuery(g, lag)[1] =
         IF lag = 0 THEN "SELECT GTID_SUBSET"
         ELSE "SELECT NOT WAIT_FOR_EXECUTED_GTID_SET"
  /\ [][ /\ (stage = "WaitGtidExecuted" /\ pending' # "none")
              => /\ expected_server_mode = "ReadOnly"
                 /\ pending' = "QuerySender_IsTrueHandler"
                 /\ \E g \in GtidSets \ {""}, lag \in 0..1 :
                      pending_arg' = WaitGtidQuery(g, lag)
         /\ (pending = "QuerySender_IsTrueHandler" /\ pending' = "none"
               /\ IsSingleFalseRow(LastResult'))
              => failed' = Some(ErrWaitTimedOut)
         /\ (CanProcess /\ stage = "WaitGtidExecutedDone")
              => stage' = IF failed # NullOpt THEN "PoolOrClose"
                          ELSE "SetTrxCharacteristics" ]_vars

C13_Witness ==
  /\ stage = "PoolOrClose"
  /\ failed = Some(ErrWaitTimedOut)
  /\ Len(sent) = 1
  /\ sent[1].arg = WaitGtidQuery("uuid:1-5", 0)
  /\ IsSingleFalseRow(sent[1].res)

(***************************************************************************)
(* The schema switch.                                                      *)
(***************************************************************************)
\* C14: SetSchema pushes the schema switch whenever the client's schema
\* differs from the server's and goes to SetSchemaDone; when the two are
\* equal it pushes nothing and goes straight to WaitGtidExecuted.
C14_SchemaSwitchWheneverDifferent ==
  [][ (CanProcess /\ stage = "SetSchema")
        => IF client_schema # server_schema
           THEN pending' = "InitSchemaSender" /\ stage' = "SetSchemaDone"
           ELSE pending' = "none" /\ stage' = "WaitGtidExecuted" ]_vars

(***************************************************************************)
(* The SET statement of SetVars.                                           *)
(***************************************************************************)
\* the positions of the statement that assign to key
Assignments(stmt, key) == {i \in 1..Len(stmt) : stmt[i].key = key}

\* the tracker variables set_vars() gives a default, with the default
TrackerDefaults ==
  { <<"session_track_gtids", Some("OWN_GTID")>>,
    <<"session_track_transaction_info", Some("CHARACTERISTICS")>>,
    <<"session_track_state_change", Some("ON")>> }

\* C15: the statement SetVars sends has exactly one assignment for each
\* entry of the store other than statement_id; when it pushes no query the
\* stage goes to SetServerOption.
C15_OneAssignmentPerEntry ==
  [][ (CanProcess /\ stage = "SetVars")
        => /\ \A e \in sysvars :
                e[1] # "statement_id"
                  => Cardinality(Assignments(pending_arg', e[1])) = 1
           /\ pending' = "none" => stage' = "SetServerOption" ]_vars

\* C16: with session trackers needed, the statement SetVars sends starts
\* with the assignment to session_track_system_variables, and a tracker
\* variable the store has an entry for (NULL included) is assigned the
\* store's value only, never the default.
C16_TrackerDefaultsOnlyIfAbsent ==
  [][ (CanProcess /\ stage = "SetVars"
         /\ connection_sharing /\ greeting_from_router)
        => /\ pending' = "QuerySender_FailedQueryHandler"
           /\ pending_arg'[1].key = "session_track_system_variables"
           /\ \A d \in TrackerDefaults :
                Has(sysvars, d[1])
                  => \A i \in Assignments(pending_arg', d[1]) :
                       pending_arg'[i].val = to_string(Get(sysvars, d[1]))
         ]_vars

(***************************************************************************)
(* IsTrueHandler.                                                          *)
(***************************************************************************)
\* the QuerySender has just delivered a result to the IsTrueHandler
IsTrueDelivered == pending = "QuerySender_IsTrueHandler" /\ pending' = "none"

\* a result of one column and one row whose first field is "1"
IsSingleTrueRow(stream) ==
  /\ stream.kind = "resultset"
  /\ stream.columns = 1
  /\ Len(stream.rows) = 1
  /\ Len(stream.rows[1]) > 0
  /\ stream.rows[1][1] = Some("1")

\* C17: a result delivered to the IsTrueHandler while failed() is unset
\* leaves it unset if and only if it has one column and exactly one row
\* whose first field is not NULL and is "1".
C17_UnsetIffSingleTrueRow ==
  [][ (IsTrueDelivered /\ failed = NullOpt)
        => (failed' = NullOpt <=> IsSingleTrueRow(LastResult')) ]_vars

C17_Witness ==
  /\ stage = "SetTrxCharacteristics"
  /\ failed = NullOpt
  /\ Len(sent) = 1
  /\ IsSingleTrueRow(sent[1].res)

\* the causes for which the IsTrueHandler rejects a result set
RejectionCauses(stream) ==
  {c \in {"columns"} : stream.columns # 1} \cup
  {c \in {"no fields"} : \E i \in 1..Len(stream.rows) : stream.rows[i] = <<>>} \cup
  {c \in {"NULL"} : \E i \in 1..Len(stream.rows) :
                      stream.rows[i] # <<>> /\ stream.rows[i][1] = NullOpt} \cup
  {c \in {"zero rows"} : Len(stream.rows) = 0} \cup
  {c \in {"too many rows"} : Len(stream.rows) > 1} \cup
  {c \in {"false value"} : \E i \in 1..Len(stream.rows) :
                             /\ stream.rows[i] # <<>>
                             /\ stream.rows[i][1] \notin {NullOpt, Some("1")}}

\* C18: the error the IsTrueHandler records for a result set rejected for
\* one cause differs from the error it records for a result set rejected
\* for one other cause.
C18_DistinctErrorPerCause ==
  (stage = "WaitGtidExecutedDone" /\ pending = "none" /\ Len(sent) = 1
     /\ sent[1].res.kind = "resultset")
    => \A other \in {s \in IsTrueStreams : s.kind = "resultset"} :
         ( /\ Cardinality(RejectionCauses(sent[1].res)) = 1
           /\ Cardinality(RejectionCauses(other)) = 1
           /\ RejectionCauses(other) # RejectionCauses(sent[1].res) )
           => failed # IsTrueHandler(NullOpt, other, ErrWaitTimedOut)

(***************************************************************************)
(* The transaction characteristics.                                        *)
(***************************************************************************)
\* the statement characteristics() held when the run started
Captured == trx_characteristics[1]

\* the parts of a statement before and after its first ';'
BeforeSemi(stmt) == SubSeq(stmt, 1, FindSemi(stmt) - 1)
AfterSemi(stmt) == SubSeq(stmt, FindSemi(stmt) + 1, Len(stmt))

\* a statement without its leading spaces
RECURSIVE StripSpaces(_)
StripSpaces(stmt) ==
  IF stmt # <<>> /\ stmt[1] = " " THEN StripSpaces(Tail(stmt)) ELSE stmt

\* a statement without one leading space
StripOneSpace(stmt) == IF stmt # <<>> /\ stmt[1] = " " THEN Tail(stmt) ELSE stmt

\* the texts of the queries sent, in order
Queries == [i \in 1..Len(sent) |-> sent[i].arg]

\* all parts of the captured statement were sent
TrxSent == stage = "FetchUserAttrs" /\ trx_characteristics # NullOpt

\* the stage alternates until the remembered statement is empty
TrxStagesAlternate ==
  /\ (CanProcess /\ stage = "SetTrxCharacteristics")
       => IF trx_stmt = <<>>
          THEN stage' = "FetchUserAttrs" /\ pending' = "none"
          ELSE /\ stage' = "SetTrxCharacteristicsDone"
               /\ pending' = "QuerySender_FailedQueryHandler"
  /\ (CanProcess /\ stage = "SetTrxCharacteristicsDone")
       => stage' = IF trx_stmt = <<>> THEN "FetchUserAttrs"
                   ELSE "SetTrxCharacteristics"

\* C19 as stated: a statement without semicolon is sent as one query; a
\* statement A;B is sent as two, A and then B without any of its leading
\* spaces; the stage alternates SetTrxCharacteristics and
\* SetTrxCharacteristicsDone until nothing is left, then FetchUserAttrs.
C19_SplitStripsAllSpaces ==
  /\ [](TrxSent =>
          /\ FindSemi(Captured) = 0 => Queries = <<Captured>>
          /\ ( /\ FindSemi(Captured) # 0
               /\ FindSemi(AfterSemi(Captured)) = 0
               /\ StripSpaces(AfterSemi(Captured)) # <<>> )
               => Queries = <<BeforeSemi(Captured),
                              StripSpaces(AfterSemi(Captured))>>)
  /\ [][TrxStagesAlternate]_vars

\* C19 (amended): a statement without semicolon is sent as one query; a
\* statement A;B is sent as two, A and then B without one leading space
\* (further spaces are sent); the stage alternates SetTrxCharacteristics
\* and SetTrxCharacteristicsDone until nothing is left, then FetchUserAttrs.
C19_SplitStripsOneSpace ==
  /\ [](TrxSent =>
          /\ FindSemi(Captured) = 0 => Queries = <<Captured>>
          /\ ( /\ FindSemi(Captured) # 0
               /\ FindSemi(AfterSemi(Captured)) = 0
               /\ StripOneSpace(AfterSemi(Captured)) # <<>> )
               => Queries = <<BeforeSemi(Captured),
                              StripOneSpace(AfterSemi(Captured))>>)
  /\ [][TrxStagesAlternate]_vars

C19_Witness ==
  /\ TrxSent
  /\ Captured = <<"a", ";", " ", " ", "a">>
  /\ Queries = << <<"a">>, <<" ", "a">> >>

(***************************************************************************)
(* SelectSessionVariablesHandler.                                          *)
(***************************************************************************)
\* the QuerySender has just delivered a result to the
\* SelectSessionVariablesHandler
SelectVarsDelivered ==
  /\ pending = "QuerySender_SelectSessionVariablesHandler"
  /\ pending' = "none"

\* a result set of two columns none of whose rows has a NULL name
IsCleanCapture(stream) ==
  /\ stream.kind = "resultset"
  /\ stream.columns = 2
  /\ \A i \in 1..Len(stream.rows) : stream.rows[i][1] # NullOpt

\* the rows of a result that name the variable n
RowsNaming(stream, n) ==
  {i \in 1..Len(stream.rows) : stream.rows[i][1] = Some(n)}

\* store after holds every pair of the rows (the last row of a name wins)
\* and, for the names no row has, what store before holds
HoldsCaptured(before, after, stream) ==
  \A n \in {SysVarNames[k] : k \in 1..Len(SysVarNames)} :
    LET naming == RowsNaming(stream, n)
    IN  IF naming = {}
        THEN {e \in after : e[1] = n} = {e \in before : e[1] = n}
        ELSE LET last == CHOOSE i \in naming : \A j \in naming : j <= i
             IN  {e \in after : e[1] = n} = {<<n, stream.rows[last][2]>>}

\* C20: a result delivered to the SelectSessionVariablesHandler never
\* changes failed(); a two-column result without NULL names puts every
\* captured pair into the store and leaves the sharing flag alone; any
\* other result (other column count, NULL name, OK, error) leaves the store
\* as it was and sets some_state_changed; FetchSysVarsDone goes to SetSchema.
C20_CaptureNeverFails ==
  [][ /\ SelectVarsDelivered
        => /\ failed' = failed
           /\ IF IsCleanCapture(LastResult')
              THEN /\ HoldsCaptured(sysvars, sysvars', LastResult')
                   /\ some_state_changed' = some_state_changed
              ELSE /\ sysvars' = sysvars
                   /\ some_state_changed'
      /\ (CanProcess /\ stage = "FetchSysVarsDone") => stage' = "SetSchema"
    ]_vars

C20_Witness ==
  /\ stage = "SetSchema"
  /\ Len(sent) = 1
  /\ sent[1].res = ResultSet(2, << <<Some("sql_mode"), Some("ANSI")>>,
                                   <<NullOpt, Some("v")>> >>)
  /\ ~Has(sysvars, "sql_mode")
  /\ some_state_changed
  /\ failed = NullOpt

(***************************************************************************)
(* The acknowledgment to the client.                                       *)
(***************************************************************************)
\* C21: SendAuthOk sends OK to the client only while failed() is unset.
C21_OkOnlyWithoutFailure ==
  [][ (CanProcess /\ stage = "SendAuthOk"
         /\ client_replies' = client_replies + 1)
        => failed = NullOpt ]_vars

(***************************************************************************)
(* The Connected stage.                                                    *)
(***************************************************************************)
\* the pooled connection was authenticated as the client's user with the
\* attributes the client sent
SameIdentity ==
  /\ client_username = server_username
  /\ client_attributes = server_attributes

\* C22: Connected with an open server connection pushes exactly one
\* sub-processor and goes to Authenticated: reset-connection, marking the
\* connection authenticated, if and only if the server greeting is present,
\* the session is not in its handshake and username and attributes match;
\* otherwise change-user if the greeting is present and the greeting
\* handshake if not.
C22_ResetOnlyForSameIdentity ==
  [][ (CanProcess /\ stage = "Connected" /\ server_open)
        => /\ stage' = "Authenticated"
           /\ pending' =
                IF server_greeting /\ ~in_handshake /\ SameIdentity
                THEN "ResetConnectionSender"
                ELSE IF server_greeting THEN "ChangeUserSender"
                ELSE "ServerGreetor"
           /\ pending' = "ResetConnectionSender" => is_authenticated'
           /\ in_handshake => pending' # "ResetConnectionSender" ]_vars

C22_Witness ==
  /\ stage = "Authenticated"
  /\ pending = "ChangeUserSender"
  /\ in_handshake /\ server_greeting /\ SameIdentity

(***************************************************************************)
(* The required connection attributes.                                     *)
(***************************************************************************)
\* C23: FetchUserAttrs either pushes the fetcher and goes to
\* FetchUserAttrsDone (enforcement on) or pushes nothing and goes to
\* SendAuthOk (enforcement off); FetchUserAttrsDone after a failed fetch, or
\* when enforcing fails, sets failed() to access denied (1045, 28000) and
\* goes to Done; after that the stage stays Done and the client gets no
\* reply.
C23_AccessDeniedGoesToDone ==
  /\ ErrAccessDenied.code = 1045 /\ ErrAccessDenied.sql_state = "28000"
  /\ [][ /\ (CanProcess /\ stage = "FetchUserAttrs")
              => \/ stage' = "SendAuthOk" /\ pending' = "none"
                 \/ /\ stage' = "FetchUserAttrsDone"
                    /\ pending' = "RouterRequireFetcher"
         /\ (stage # "FetchUserAttrsDone" /\ stage' = "FetchUserAttrsDone")
              => pending' = "RouterRequireFetcher"
         /\ (CanProcess /\ stage = "FetchUserAttrsDone")
              => \/ /\ failed' = Some(ErrAccessDenied)
                    /\ stage' = "Done"
                 \/ /\ fetcher_result = "ok"
                    /\ failed' = failed
                    /\ stage' = "SendAuthOk"
         \* enforce() is what fails in a FetchUserAttrsDone step
         /\ (CanProcess /\ stage = "FetchUserAttrsDone"
               /\ ~other_failure /\ other_failure')
              => (failed' = Some(ErrAccessDenied) /\ stage' = "Done")
         /\ failed_phase = "FetchUserAttrsDone"
              => (stage' = "Done" /\ client_replies' = 0) ]_vars

C23_Witness ==
  /\ stage = "Done" /\ result = "Done"
  /\ in_handshake
  /\ fetcher_result = "ok"
  /\ failed = Some(ErrAccessDenied)
  /\ failed_phase = "FetchUserAttrsDone"
  /\ client_replies = 0

C25_AlwaysReturnsDone ==
  <>(thrown \/ timer_canceled \/ (stage = "Done" /\ result = "Done"))

\* what bounds the three cycles: each statement sent shortens the
\* remembered statement, the fallback restart is taken once, and retries
\* are suspended only while the retry window lasts
CyclesBounded ==
  /\ (stage = "SetTrxCharacteristics" /\ stage' = "SetTrxCharacteristicsDone")
       => Len(trx_stmt') < Len(trx_stmt)
  /\ restarts' <= 1
  /\ result' = "Suspend" => clock < RetryWindow

\* C25 (amended): every run in which the sub-processors return control
\* and the retry timer fires ends: process() returns Done from the Done
\* stage, or returns the error
\* of pool_or_close() or send_auth_ok(); the cycles of the stage machine are
\* bounded.
C25_AlwaysEnds ==
  /\ <>(\/ thrown
        \/ timer_canceled
        \/ stage = "Done" /\ result = "Done"
        \/ stage \in {"FallbackToWrite", "SendAuthOk"} /\ result = "Error")
  /\ [][CyclesBounded]_vars

\* a run that went through all three cycles and ended
C25_Witness ==
  /\ stage = "Done" /\ result = "Done"
  /\ suspends > 0
  /\ restarts = 1
  /\ trx_characteristics = Some(<<"a", ";", " ", "b">>)
  /\ trx_stmt = <<>>

(***************************************************************************)
(* The GTID wait and the fallback, once per run.                           *)
(***************************************************************************)
\* C26: a GTID-wait query is issued only before the fallback restart and
\* only once, so WaitGtidExecutedDone, PoolOrClose and FallbackToWrite are
\* each entered at most once in a run; fallback_to_write(), when it runs,
\* restarts at Connect with a read-write target and never goes to Done.
C26_WaitAndFallbackOnce ==
  /\ [](Len(sent) <= 1 /\ restarts <= 1)
  /\ [][ /\ (stage # "WaitGtidExecutedDone" /\ stage' = "WaitGtidExecutedDone")
              => /\ stage = "WaitGtidExecuted"
                 /\ Len(sent) = 0 /\ restarts = 0
                 /\ expected_server_mode = "ReadOnly"
         /\ (stage # "PoolOrClose" /\ stage' = "PoolOrClose")
              => (stage = "WaitGtidExecutedDone" /\ restarts = 0)
         /\ (stage # "FallbackToWrite" /\ stage' = "FallbackToWrite")
              => (stage = "PoolOrClose" /\ restarts = 0)
         /\ (CanProcess /\ stage = "FallbackToWrite")
              => /\ ~fallback_refused(already_fallback, expected_server_mode)
                 /\ stage' = "Connect"
                 /\ restarts' = 1
                 /\ expected_server_mode' = "ReadWrite" ]_vars

\* a run that waited, fell back and ended on the read-write target
C26_Witness ==
  /\ stage = "Done" /\ result = "Done"
  /\ Len(sent) = 1
  /\ restarts = 1
  /\ expected_server_mode = "ReadWrite"
  /\ failed = NullOpt

====
